---- MODULE Spec2Model ----
(***************************************************************************)
(* Client-side attestation coordination of the contractkit                 *)
(* AttestationsWrapper (src/packages/sdk/contractkit/src/kit.ts).          *)
(*                                                                         *)
(* The wrapper is a set of async operations over an RPC client.  Every     *)
(* operation is modelled as one process whose position (its pc) moves      *)
(* from one await to the next: the code between two awaits runs as one     *)
(* atomic step, as it does on the JavaScript event loop.  The chain, the   *)
(* wall clock and the issuer services are the environment.                 *)
(*                                                                         *)
(* The operations are independent (the wrapper keeps no state across       *)
(* calls), so each group of operations has a specification of its own      *)
(* over its own variables:                                                 *)
(*   SpecWait / SpecWaitFair  waitForSelectingIssuers,                     *)
(*                            selectIssuersAfterWait                       *)
(*   SpecCode                 complete, findMatchingIssuer,                *)
(*                            validateAttestationCode                      *)
(*   SpecLookup               lookupIdentifiers                            *)
(*   SpecProbe / SpecPool     getActionableAttestations,                   *)
(*                            getNonCompliantIssuers                       *)
(*   SpecRevoke               revoke                                       *)
(*   SpecStatus               getAttestationServiceStatus                  *)
(***************************************************************************)
EXTENDS Integers, Sequences, FiniteSets, TLC

VARIABLES
    \* ---- environment of the wait: wall clock and chain ----
    now,                 \* Date.now(), in milliseconds
    chainHeight,         \* what connection.getBlockNumber() answers
    chainUnselected,     \* identifier -> blockNumber of its UnselectedRequest
    chainWaitBlocks,     \* the contract's selectIssuersWaitBlocks
    \* ---- one call of waitForSelectingIssuers ----
    wPc,                 \* position of the call
    wIdentifier,         \* argument identifier
    timeoutSeconds,      \* argument timeoutSeconds
    pollDurationSeconds, \* argument pollDurationSeconds
    startTime,           \* local startTime
    unselectedRequest,   \* local unselectedRequest.blockNumber
    waitBlocks,          \* local waitBlocks
    blockNumber,         \* local blockNumber (the last one read)
    sleepLeft,           \* milliseconds left of the running sleep()
    wError,              \* the error the call threw
    \* ---- observations of that call (history) ----
    firstBlock,          \* the first block number read (Unread: none yet)
    slept,               \* sleep() was called
    allBelow,            \* no read so far returned a selectable block
    reachedAt,           \* clock value when the chain reached the block
                         \* the call waits for (Unread: not yet)
    \* ---- the caller: selectIssuersAfterWait or the wait itself ----
    entry,               \* which public method was called
    saPc,                \* position of selectIssuersAfterWait
    saError,             \* the error selectIssuersAfterWait threw
    txBuilt,             \* transaction objects built so far
    \* ---- chain state read by the operations on completion codes ----
    accountsSigner,      \* Accounts.getAttestationSigner: account -> signer
    \* ---- the last operation on a completion code and what it did ----
    op,                  \* which method ran
    opArgs,              \* its arguments
    opOutcome,           \* "returned" or "threw", "none" while running
    opValue,             \* the value returned
    opError,             \* the error thrown
    opTx,                \* transaction objects it built
    opConsulted,         \* issuers whose signer it asked for
    opAnswer,            \* what the contract's view call answered
    opPc,                \* the await the call is waiting at
    opRead,              \* the signers the reads answered, in order
    \* ---- lookupIdentifiers ----
    chainStats,          \* identifier -> its accounts with their counters
    lkPc,                \* position of the call
    lkIdentifiers,       \* argument identifiers
    lkStats,             \* what batchGetAttestationStats answered
    lkResult,            \* the IdentifierLookupResult returned
    lkError,             \* the error the call rejected with
    \* ---- getActionableAttestations / getNonCompliantIssuers ----
    chainCompletable,    \* the completable attestations the contract holds
    pPc,                 \* position of the running call
    pMethod,             \* which of the two methods is running
    pEntries,            \* the parsed list the running call probes
    pStarted,            \* number of entries whose probe was started
    pInflight,           \* indexes of the probes in flight
    pResults,            \* what the probes resolved to, by index
    pProbes,             \* per entry: the await its probe waits at, and
                         \* the answers the probe has received
    pSeen,               \* what is observed of the running call (history)
    pCalls,              \* method -> what its call read and returned
    \* ---- revoke ----
    chainAccounts,       \* identifier -> the accounts the contract lists
    rvPc,                \* the await the call is waiting at, or how it ended
    rvArgs,              \* arguments of the call
    rvError,             \* the error thrown
    rvTx,                \* transaction objects built
    rvList,              \* the list the read answered
    \* ---- getAttestationServiceStatus ----
    ssPc,                \* the await the call is waiting at
    ssValidator,         \* argument validator (its address)
    ssHasSigner,         \* local hasAttestationSigner
    ssRet,               \* local ret, the response under construction
    ssBody,              \* local statusResponseBody
    ssHealthzOk,         \* local healthzResponse.ok
    ssRequests,          \* requests issued so far (history)
    ssMetadata,          \* how the metadata step ended (history)
    ssStatus,            \* how the status request ended (history)
    ssHealthz,           \* how the healthz step ended (history)
    \* ---- request, selectIssuers, approveAttestationFee ----
    chainStableToken,    \* the address the registry holds for StableToken
    chainRequestFee,     \* token -> the contract's attestation request fee
    chainSent,           \* the transactions sent to the chain
    rqPc,                \* the await the call is waiting at
    rqMethod,            \* which method is running
    rqArgs,              \* its arguments
    rqToken,             \* local tokenAddress of request
    rqFee,               \* the fee approveAttestationFee computed
    rqError,             \* the error thrown
    rqTx,                \* transaction objects returned so far
    rqLast,              \* the object the last call returned
    rqCalls,             \* number of calls made
    rqLookup,            \* how the registry lookup of the call ended (history)
    \* ---- decoding of packed string arrays ----
    dcPc,                \* position of the decoding
    dcStrings,           \* the strings the contract holds
    dcResponse,          \* the lengths and the blob the contract answered
    dcDecoded,           \* what parseSolidityStringArray returned
    dcParsed,           \* what parseGetCompletableAttestations returned
    \* ---- the Accounts contract ----
    acAccounts,          \* the addresses that created an account
    acSigner,            \* account -> role -> the role's signer
    acStarted,           \* authorizations whose first step was taken
    acCompleted,         \* completed authorizations (account, role, signer)
    acAuthorizedBy,      \* signer -> the account that authorized it
    acProfile,           \* address -> name, key, wallet address, metadata URL
    acCall,              \* the last call and its outcome
    acLogs,              \* the events the last call emitted
    acCalls,            \* the number of calls made
    \* ---- the probe applied after getAttestationServiceStatus ----
    cmpPc,               \* idle, or probed
    cmpAnswer,           \* what the network answered to the probe
    cmpResult,          \* what the probe returned
    \* ---- setFeeCurrency, updateGasPriceInConnectionLayer, fillGasPrice ----
    defaultFeeCurrency,  \* connection.defaultFeeCurrency
    currencyGasPrice,    \* address -> the connection's gas price for the currency
    fcPc,                \* position of the call
    fcMethod,            \* the method called: setFeeCurrency,
                         \* updateGasPriceInConnectionLayer or fillGasPrice
    fcToken,             \* the argument tokenContract of setFeeCurrency
    fcAddress,           \* the currency: the address the registry answered,
                         \* or the argument of the other two methods
    fcRaw,               \* rawGasPrice of the GasPriceMinimum contract
    fcError,             \* the error the call rejected with
    fcBefore,           \* defaultFeeCurrency and the gas prices when the call was made
    \* ---- epoch arithmetic ----
    chainEpochSize,      \* what validators.getEpochSize() answers
    epPc,                \* position of the call
    epMethod,            \* the method called
    epArg,               \* its argument, an epoch number or a block number
    epSize,              \* epochSize as the call read it
    epResult,           \* the number the call returned
    \* ---- getNetworkConfig ----
    cfgPc,               \* position of the call of getNetworkConfig
    cfgAddresses,        \* celoTokenAddresses, token -> address
    cfgResolved,         \* positions of the wrapper promises that resolved
    cfgStarted,          \* the configuration requests started, in order
    cfgError             \* the error the call rejected with

waitVars == <<now, chainHeight, chainUnselected, chainWaitBlocks, wPc,
              wIdentifier, timeoutSeconds, pollDurationSeconds, startTime,
              unselectedRequest, waitBlocks, blockNumber, sleepLeft, wError,
              firstBlock, slept, allBelow, reachedAt, entry, saPc, saError, txBuilt>>

codeVars == <<accountsSigner, op, opArgs, opOutcome, opValue, opError, opTx,
              opConsulted, opAnswer, opPc, opRead>>

lookupVars == <<chainStats, lkPc, lkIdentifiers, lkStats, lkResult, lkError>>

probeVars == <<chainCompletable, pPc, pMethod, pEntries, pStarted, pInflight,
               pResults, pProbes, pSeen, pCalls>>

revokeVars == <<chainAccounts, rvPc, rvArgs, rvError, rvTx, rvList>>

statusVars == <<ssPc, ssValidator, ssHasSigner, ssRet, ssBody, ssHealthzOk,
                ssRequests, ssMetadata, ssStatus, ssHealthz>>

requestVars == <<chainStableToken, chainRequestFee, chainSent, rqPc,
                 rqMethod, rqArgs, rqToken, rqFee, rqError, rqTx, rqLast,
                 rqCalls, rqLookup>>

decodeVars == <<dcPc, dcStrings, dcResponse, dcDecoded, dcParsed>>

accountsVars == <<acAccounts, acSigner, acStarted, acCompleted,
                  acAuthorizedBy, acProfile, acCall, acLogs, acCalls>>

compareVars == <<cmpPc, cmpAnswer, cmpResult>>

feeVars == <<defaultFeeCurrency, currencyGasPrice, fcPc, fcMethod, fcToken,
               fcAddress, fcRaw, fcError, fcBefore>>

epochVars == <<chainEpochSize, epPc, epMethod, epArg, epSize, epResult>>

configVars == <<cfgPc, cfgAddresses, cfgResolved, cfgStarted, cfgError>>

vars ==
    <<waitVars, codeVars, lookupVars, probeVars, revokeVars, statusVars,
      requestVars, decodeVars, accountsVars, compareVars, feeVars, epochVars,
      configVars>>

\* what an operation on the wait leaves alone
outsideWait ==
    <<codeVars, lookupVars, probeVars, revokeVars, statusVars, requestVars,
      decodeVars, accountsVars, compareVars, feeVars, epochVars, configVars>>
\* what an operation on a completion code leaves alone
outsideCode ==
    <<waitVars, lookupVars, probeVars, revokeVars, statusVars, requestVars,
      decodeVars, accountsVars, compareVars, feeVars, epochVars, configVars>>
\* what lookupIdentifiers leaves alone
outsideLookup ==
    <<waitVars, codeVars, probeVars, revokeVars, statusVars, requestVars,
      decodeVars, accountsVars, compareVars, feeVars, epochVars, configVars>>
\* what the two probing methods leave alone
outsideProbe ==
    <<waitVars, codeVars, lookupVars, revokeVars, statusVars, requestVars,
      decodeVars, accountsVars, compareVars, feeVars, epochVars, configVars>>
\* what revoke leaves alone
outsideRevoke ==
    <<waitVars, codeVars, lookupVars, probeVars, statusVars, requestVars,
      decodeVars, accountsVars, compareVars, feeVars, epochVars, configVars>>
\* what getAttestationServiceStatus leaves alone
outsideStatus ==
    <<waitVars, codeVars, lookupVars, probeVars, revokeVars, requestVars,
      decodeVars, accountsVars, compareVars, feeVars, epochVars, configVars>>
\* what request, selectIssuers, approveAttestationFee leaves alone
outsideRequest ==
    <<waitVars, codeVars, lookupVars, probeVars, revokeVars, statusVars,
      decodeVars, accountsVars, compareVars, feeVars, epochVars, configVars>>
\* what decoding of packed string arrays leaves alone
outsideDecode ==
    <<waitVars, codeVars, lookupVars, probeVars, revokeVars, statusVars,
      requestVars, accountsVars, compareVars, feeVars, epochVars, configVars>>
\* what the Accounts contract leaves alone
outsideAccounts ==
    <<waitVars, codeVars, lookupVars, probeVars, revokeVars, statusVars,
      requestVars, decodeVars, compareVars, feeVars, epochVars, configVars>>
\* what the probe applied after getAttestationServiceStatus leaves alone
outsideCompare ==
    <<waitVars, codeVars, lookupVars, probeVars, revokeVars, statusVars,
      requestVars, decodeVars, accountsVars, feeVars, epochVars, configVars>>
\* what setFeeCurrency leaves alone
outsideFee ==
    <<waitVars, codeVars, lookupVars, probeVars, revokeVars, statusVars,
      requestVars, decodeVars, accountsVars, compareVars, epochVars,
      configVars>>
\* what epoch arithmetic leaves alone
outsideEpoch ==
    <<waitVars, codeVars, lookupVars, probeVars, revokeVars, statusVars,
      requestVars, decodeVars, accountsVars, compareVars, feeVars,
      configVars>>
\* what getNetworkConfig leaves alone
outsideConfig ==
    <<waitVars, codeVars, lookupVars, probeVars, revokeVars, statusVars,
      requestVars, decodeVars, accountsVars, compareVars, feeVars, epochVars>>

Min(a, b) == IF a < b THEN a ELSE b
Max(a, b) == IF a > b THEN a ELSE b

(***************************************************************************)
(* Bounds of the model.                                                    *)
(***************************************************************************)
MaxTimeoutSeconds == 1
MaxRequestBlock == 1
MaxWaitBlocks == 1

Identifiers == {"id1", "id2"}
\* the values of pollDurationSeconds tried: no sleep at all, one second
PollSeconds == {0, 1}

\* timeoutSeconds * 1000, pollDurationSeconds * 1000
MsPerSecond == 1000
\* granularity of the modelled clock: half a second
TickMs == MsPerSecond \div 2
\* the call starts at 0 or at MaxStartMs; past MaxNow every loop test fails
MaxStartMs == TickMs
MaxNow == MaxStartMs + (MaxTimeoutSeconds + 1) * MsPerSecond
MaxHeight == MaxRequestBlock + MaxWaitBlocks

\* a local of the call that no read has assigned yet
Unread == 0 - 1

NoError == "none"
ErrNoUnselectedRequest == "No unselectedRequest to wait for"
ErrTimeout == "Timeout while waiting for selecting issuers"
ErrChainRead == "chain read failed"

(***************************************************************************)
(* waitForSelectingIssuers: the two tests of the loop.                     *)
(***************************************************************************)
\* while (Date.now() - startTime < timeoutSeconds * 1000)
LoopGuardMutForever(t, start, timeout) == TRUE
LoopGuard(t, start, timeout) == t - start < timeout * MsPerSecond

\* if (blockNumber >= unselectedRequest.blockNumber + waitBlocks)
SelectableMutGt(b, req, wb) == b > req + wb
SelectableMutNoWait(b, req, wb) == b >= req
Selectable(b, req, wb) == b >= req + wb

\* await sleep(pollDurationSeconds * 1000)
SleepMsMutNone(poll) == 0
SleepMs(poll) == poll * MsPerSecond

\* if (unselectedRequest.blockNumber === 0) throw
NoPendingMutNever(req) == FALSE
NoPending(req) == req = 0

(***************************************************************************)
(* The code that runs when the loop test is evaluated: either the next     *)
(* getBlockNumber is issued or the timeout error is thrown.                *)
(***************************************************************************)
EnterLoopMutReturnsOnTimeout ==
    IF LoopGuard(now, startTime, timeoutSeconds)
    THEN /\ wPc' = "getBlockNumber"
         /\ wError' = wError
    ELSE /\ wPc' = "returned"
         /\ wError' = wError
EnterLoop ==
    IF LoopGuard(now, startTime, timeoutSeconds)
    THEN /\ wPc' = "getBlockNumber"
         /\ wError' = wError
    ELSE /\ wPc' = "threw"
         /\ wError' = ErrTimeout

\* the block from which the chain lets the issuers of id be selected
ChainRequired(id) == chainUnselected[id] + chainWaitBlocks

\* const startTime = Date.now(); await this.getUnselectedRequest(...)
WaitCall(id, timeout, poll, how) ==
    /\ wPc = "idle"
    /\ wPc' = "getUnselectedRequest"
    /\ wIdentifier' = id
    /\ timeoutSeconds' = timeout
    /\ pollDurationSeconds' = poll
    /\ startTime' = now
    /\ entry' = how
    /\ saPc' = IF how = "selectIssuersAfterWait" THEN "waiting" ELSE saPc
    /\ reachedAt' = IF chainHeight >= ChainRequired(id) THEN now ELSE Unread
    /\ UNCHANGED <<now, chainHeight, chainUnselected, chainWaitBlocks,
                   unselectedRequest, waitBlocks, blockNumber, sleepLeft,
                   wError, firstBlock, slept, allBelow, saError, txBuilt>>

\* the read of getUnselectedRequest completes, or fails
WaitGetUnselectedRequest ==
    /\ wPc = "getUnselectedRequest"
    /\ \/ /\ unselectedRequest' = chainUnselected[wIdentifier]
          /\ wPc' = "selectIssuersWaitBlocks"
          /\ wError' = wError
       \/ /\ wPc' = "threw"
          /\ wError' = ErrChainRead
          /\ unselectedRequest' = unselectedRequest
    /\ UNCHANGED <<now, chainHeight, chainUnselected, chainWaitBlocks,
                   wIdentifier, timeoutSeconds, pollDurationSeconds,
                   startTime, waitBlocks, blockNumber, sleepLeft, firstBlock,
                   slept, allBelow, reachedAt, entry, saPc, saError, txBuilt>>

\* the read of selectIssuersWaitBlocks completes (then the blockNumber === 0
\* test and the first loop test run), or fails
WaitSelectIssuersWaitBlocks ==
    /\ wPc = "selectIssuersWaitBlocks"
    /\ \/ /\ waitBlocks' = chainWaitBlocks
          /\ IF NoPending(unselectedRequest)
             THEN /\ wPc' = "threw"
                  /\ wError' = ErrNoUnselectedRequest
             ELSE EnterLoop
       \/ /\ wPc' = "threw"
          /\ wError' = ErrChainRead
          /\ waitBlocks' = waitBlocks
    /\ UNCHANGED <<now, chainHeight, chainUnselected, chainWaitBlocks,
                   wIdentifier, timeoutSeconds, pollDurationSeconds,
                   startTime, unselectedRequest, blockNumber, sleepLeft,
                   firstBlock, slept, allBelow, reachedAt, entry, saPc, saError,
                   txBuilt>>

\* the read of getBlockNumber completes: return, or sleep; or the read fails
WaitGetBlockNumber ==
    /\ wPc = "getBlockNumber"
    /\ \/ /\ blockNumber' = chainHeight
          /\ firstBlock' = IF firstBlock = Unread THEN chainHeight
                            ELSE firstBlock
          /\ allBelow' = (allBelow /\
                          chainHeight < unselectedRequest + waitBlocks)
          /\ wError' = wError
          /\ IF Selectable(chainHeight, unselectedRequest, waitBlocks)
             THEN /\ wPc' = "returned"
                  /\ UNCHANGED <<slept, sleepLeft>>
             ELSE /\ wPc' = "sleep"
                  /\ slept' = TRUE
                  /\ sleepLeft' = SleepMs(pollDurationSeconds)
       \/ /\ wPc' = "threw"
          /\ wError' = ErrChainRead
          /\ UNCHANGED <<blockNumber, firstBlock, allBelow, slept, sleepLeft>>
    /\ UNCHANGED <<now, chainHeight, chainUnselected, chainWaitBlocks,
                   reachedAt,
                   wIdentifier, timeoutSeconds, pollDurationSeconds,
                   startTime, unselectedRequest, waitBlocks, entry, saPc,
                   saError, txBuilt>>

\* sleep(pollDurationSeconds * 1000) is over: the loop test runs again
WaitSleepDone ==
    /\ wPc = "sleep"
    /\ sleepLeft = 0
    /\ EnterLoop
    /\ UNCHANGED <<now, chainHeight, chainUnselected, chainWaitBlocks,
                   wIdentifier, timeoutSeconds, pollDurationSeconds,
                   startTime, unselectedRequest, waitBlocks, blockNumber,
                   sleepLeft, firstBlock, slept, allBelow, reachedAt, entry, saPc,
                   saError, txBuilt>>

(***************************************************************************)
(* selectIssuersAfterWait: await the wait, then build the transaction.     *)
(***************************************************************************)
\* what the awaited wait must have done for the next line to run
ResumesAfterMutAlways(pc) == pc \in {"returned", "threw"}
ResumesAfter(pc) == pc = "returned"

\* selectIssuers(identifier): toTransactionObject(..., selectIssuers(id))
SelectIssuers(id) == [method |-> "selectIssuers", identifier |-> id]

\* return this.selectIssuers(identifier)
SelectIssuersAfterWaitReturn ==
    /\ saPc = "waiting"
    /\ ResumesAfter(wPc)
    /\ saPc' = "returned"
    /\ txBuilt' = txBuilt \cup {SelectIssuers(wIdentifier)}
    /\ UNCHANGED <<now, chainHeight, chainUnselected, chainWaitBlocks, wPc,
                   wIdentifier, timeoutSeconds, pollDurationSeconds,
                   startTime, unselectedRequest, waitBlocks, blockNumber,
                   sleepLeft, wError, firstBlock, slept, allBelow, reachedAt, entry,
                   saError>>

\* the awaited wait threw: the error leaves selectIssuersAfterWait
SelectIssuersAfterWaitThrow ==
    /\ saPc = "waiting"
    /\ wPc = "threw"
    /\ ~ResumesAfter(wPc)
    /\ saPc' = "threw"
    /\ saError' = wError
    /\ UNCHANGED <<now, chainHeight, chainUnselected, chainWaitBlocks, wPc,
                   wIdentifier, timeoutSeconds, pollDurationSeconds,
                   startTime, unselectedRequest, waitBlocks, blockNumber,
                   sleepLeft, wError, firstBlock, slept, allBelow, reachedAt, entry,
                   txBuilt>>

(***************************************************************************)
(* Environment of the wait.                                                *)
(***************************************************************************)
\* the wall clock advances; a running sleep() gets closer to its end
Tick ==
    /\ wPc # "idle"
    /\ now < MaxNow \/ sleepLeft > 0
    /\ now' = Min(now + TickMs, MaxNow)
    /\ sleepLeft' = Max(sleepLeft - TickMs, 0)
    /\ UNCHANGED <<chainHeight, chainUnselected, chainWaitBlocks, wPc,
                   wIdentifier, timeoutSeconds, pollDurationSeconds,
                   startTime, unselectedRequest, waitBlocks, blockNumber,
                   wError, firstBlock, slept, allBelow, reachedAt, entry, saPc,
                   saError, txBuilt, outsideWait>>

\* the chain produces a block
NewBlock ==
    /\ wPc # "idle"
    /\ chainHeight < MaxHeight
    /\ chainHeight' = chainHeight + 1
    /\ reachedAt' = IF /\ reachedAt = Unread
                       /\ chainHeight + 1 >= ChainRequired(wIdentifier)
                    THEN now ELSE reachedAt
    /\ UNCHANGED <<now, chainUnselected, chainWaitBlocks, wPc, wIdentifier,
                   timeoutSeconds, pollDurationSeconds, startTime,
                   unselectedRequest, waitBlocks, blockNumber, sleepLeft,
                   wError, firstBlock, slept, allBelow, entry, saPc, saError,
                   txBuilt, outsideWait>>

WaitIdle ==
    /\ wPc = "idle"
    /\ wIdentifier = "id1"
    /\ timeoutSeconds = 0
    /\ pollDurationSeconds = 0
    /\ startTime = 0
    /\ unselectedRequest = Unread
    /\ waitBlocks = Unread
    /\ blockNumber = Unread
    /\ sleepLeft = 0
    /\ wError = NoError
    /\ firstBlock = Unread
    /\ slept = FALSE
    /\ allBelow = TRUE
    /\ reachedAt = Unread
    /\ entry = "none"
    /\ saPc = "idle"
    /\ saError = NoError
    /\ txBuilt = {}

WaitStart ==
    /\ now \in {0, MaxStartMs}
    /\ chainUnselected \in [Identifiers -> 0..MaxRequestBlock]
    /\ chainWaitBlocks \in 0..MaxWaitBlocks
    /\ chainHeight \in MaxRequestBlock..MaxHeight
    /\ WaitIdle

\* the wait's variables while another group of operations is exercised
WaitQuiet ==
    /\ now = 0
    /\ chainUnselected = [id \in Identifiers |-> 0]
    /\ chainWaitBlocks = 0
    /\ chainHeight = 0
    /\ WaitIdle

WaitStep ==
    /\ \/ WaitGetUnselectedRequest
       \/ WaitSelectIssuersWaitBlocks
       \/ WaitGetBlockNumber
       \/ WaitSleepDone
       \/ SelectIssuersAfterWaitReturn
       \/ SelectIssuersAfterWaitThrow
    /\ UNCHANGED outsideWait

NextWait ==
    \/ \E id \in Identifiers, timeout \in 0..MaxTimeoutSeconds,
          poll \in PollSeconds,
          how \in {"waitForSelectingIssuers", "selectIssuersAfterWait"} :
            WaitCall(id, timeout, poll, how) /\ UNCHANGED outsideWait
    \/ WaitStep
    \/ Tick
    \/ NewBlock

\* calls whose timeout leaves time for a poll after a sleep of one second
NextPoll ==
    \/ \E id \in Identifiers, poll \in PollSeconds,
          how \in {"waitForSelectingIssuers", "selectIssuersAfterWait"} :
            WaitCall(id, MaxTimeoutSeconds + 1, poll, how)
            /\ UNCHANGED outsideWait
    \/ WaitStep
    \/ Tick
    \/ NewBlock

(***************************************************************************)
(* Completion codes.  A code is the signature of an attestation signer     *)
(* over the message of (identifier, account); a string that is not a       *)
(* signature at all is the malformed code.                                 *)
(***************************************************************************)
MaxIssuers == 2

Addresses == {"0xaa", "0xbb", "0xcc"}
Accounts == {"0xaa", "0xbb"}
NoAddress == "none"
\* NULL_ADDRESS of @celo/base
NULL_ADDRESS == "0x00"
\* what the contract's validateAttestationCode view may answer
Answers == {NULL_ADDRESS, "0xaa", "0xAA"}

\* String.prototype.toLowerCase on the address strings of the model
ToLowerCase(a) ==
    CASE a = "0xAA" -> "0xaa"
      [] a = "0xBB" -> "0xbb"
      [] a = "0xCC" -> "0xcc"
      [] OTHER -> a

\* AttestationUtils.getAttestationMessageToSignFromIdentifier: a hash of
\* (identifier, account), taken to be free of collisions
GetAttestationMessageToSign(identifier, account) == <<identifier, account>>

Messages == {GetAttestationMessageToSign(i, a) : i \in Identifiers,
                                                 a \in Accounts}
MalformedCode == [wellFormed |-> FALSE, signer |-> NoAddress,
                  message |-> <<"", "">>]
Codes == {MalformedCode} \cup
         [wellFormed : {TRUE}, signer : Addresses, message : Messages]

\* the address an ECDSA recovery of code over message yields: the signer
\* when code signs message, an address nobody holds otherwise
Recover(message, code) ==
    IF code.message = message THEN code.signer ELSE NoAddress

\* SignatureUtils.parseSignature(message, code, signer): the signature's
\* (v, r, s) when code is a signature of signer over message; throws
\* otherwise
ParseSignature(message, code, signer) ==
    IF code.wellFormed /\ Recover(message, code) = signer
    THEN [ok |-> TRUE, vrs |-> code]
    ELSE [ok |-> FALSE, vrs |-> MalformedCode]

ErrVerification == "Unable to parse signature"

\* accounts.getAttestationSigner(issuer)
GetAttestationSignerMutSelf(issuer) == issuer
GetAttestationSigner(issuer) == accountsSigner[issuer]

NoArgs == [identifier |-> "", account |-> "", issuer |-> "",
           code |-> MalformedCode, issuers |-> <<>>]

\* this.contract.methods.complete(identifier, v, r, s)
CompleteTx(identifier, vrs) ==
    [method |-> "complete", identifier |-> identifier, vrs |-> vrs]

\* complete(identifier, account, issuer, code), up to
\* await this.kit.contracts.getAccounts()
Complete(identifier, account, issuer, code) ==
    /\ op = "none"
    /\ op' = "complete"
    /\ opPc' = "getAccounts"
    /\ opArgs' = [NoArgs EXCEPT !.identifier = identifier,
                                !.account = account,
                                !.issuer = issuer, !.code = code]
    /\ UNCHANGED <<accountsSigner, opOutcome, opValue, opError, opTx,
                   opConsulted, opAnswer, opRead>>

\* findMatchingIssuer(identifier, account, code, issuers), up to
\* await this.kit.contracts.getAccounts()
FindMatchingIssuer(identifier, account, code, issuers) ==
    /\ op = "none"
    /\ op' = "findMatchingIssuer"
    /\ opPc' = "getAccounts"
    /\ opArgs' = [NoArgs EXCEPT !.identifier = identifier,
                                !.account = account, !.code = code,
                                !.issuers = issuers]
    /\ UNCHANGED <<accountsSigner, opOutcome, opValue, opError, opTx,
                   opConsulted, opAnswer, opRead>>

\* validateAttestationCode(identifier, account, issuer, code), up to
\* await this.kit.contracts.getAccounts()
ValidateAttestationCode(identifier, account, issuer, code) ==
    /\ op = "none"
    /\ op' = "validateAttestationCode"
    /\ opPc' = "getAccounts"
    /\ opArgs' = [NoArgs EXCEPT !.identifier = identifier,
                                !.account = account,
                                !.issuer = issuer, !.code = code]
    /\ UNCHANGED <<accountsSigner, opOutcome, opValue, opError, opTx,
                   opConsulted, opAnswer, opRead>>

\* the call returns value
CodeReturns(value) ==
    /\ opPc' = "over"
    /\ opOutcome' = "returned"
    /\ opValue' = value
    /\ opError' = NoError

\* the call throws error
CodeThrows(error) ==
    /\ opPc' = "over"
    /\ opOutcome' = "threw"
    /\ opValue' = "none"
    /\ opError' = error

\* getAccounts resolves: complete and validateAttestationCode ask for the
\* signer of issuer, findMatchingIssuer enters its loop
GetAccountsAnswers ==
    /\ opPc = "getAccounts"
    /\ IF op = "findMatchingIssuer" /\ opArgs.issuers = <<>>
       THEN CodeReturns("null") /\ UNCHANGED opConsulted
       ELSE /\ opPc' = "getAttestationSigner"
            /\ opConsulted' = 1
            /\ UNCHANGED <<opOutcome, opValue, opError>>
    /\ UNCHANGED <<accountsSigner, op, opArgs, opTx, opAnswer, opRead>>

\* an awaited read of the chain rejects and the call rejects with its
\* error
ChainReadRejects ==
    /\ opPc \in {"getAccounts", "getAttestationSigner",
                 "validateAttestationCode"}
    /\ CodeThrows(ErrChainRead)
    /\ UNCHANGED <<accountsSigner, op, opArgs, opTx, opConsulted, opAnswer,
                   opRead>>

\* the issuer whose signer is being read
IssuerRead ==
    IF op = "findMatchingIssuer" THEN opArgs.issuers[opConsulted]
    ELSE opArgs.issuer

\* one turn of the loop of findMatchingIssuer after parseSignature on the
\* signer of issuers[i]: return issuer on success, continue in the catch,
\* return null after the last issuer
FindTurnMutLast(ok, i, issuers) ==
    IF i < Len(issuers) THEN [over |-> FALSE, value |-> "none"]
    ELSE [over |-> TRUE, value |-> IF ok THEN issuers[i] ELSE "null"]
FindTurn(ok, i, issuers) ==
    IF ok THEN [over |-> TRUE, value |-> issuers[i]]
    ELSE IF i < Len(issuers) THEN [over |-> FALSE, value |-> "none"]
    ELSE [over |-> TRUE, value |-> "null"]

\* accounts.getAttestationSigner(issuer) answers and parseSignature runs
\* on the signer answered
SignerAnswers ==
    LET attestationSigner == GetAttestationSigner(IssuerRead)
        expectedSourceMessage ==
            GetAttestationMessageToSign(opArgs.identifier, opArgs.account)
        parsed == ParseSignature(expectedSourceMessage, opArgs.code,
                                 attestationSigner)
        turn == FindTurn(parsed.ok, opConsulted, opArgs.issuers)
    IN  /\ opPc = "getAttestationSigner"
        /\ opRead' = Append(opRead, attestationSigner)
        /\ CASE op = "complete" ->
                  /\ IF parsed.ok
                     THEN /\ CodeReturns("none")
                          /\ opTx' = {CompleteTx(opArgs.identifier,
                                                 parsed.vrs)}
                     ELSE CodeThrows(ErrVerification) /\ opTx' = {}
                  /\ UNCHANGED opConsulted
             [] op = "validateAttestationCode" ->
                  /\ IF parsed.ok
                     THEN /\ opPc' = "validateAttestationCode"
                          /\ UNCHANGED <<opOutcome, opValue, opError>>
                     ELSE CodeThrows(ErrVerification)
                  /\ UNCHANGED <<opTx, opConsulted>>
             [] OTHER ->
                  /\ IF turn.over
                     THEN CodeReturns(turn.value) /\ UNCHANGED opConsulted
                     ELSE /\ opConsulted' = opConsulted + 1
                          /\ UNCHANGED <<opPc, opOutcome, opValue, opError>>
                  /\ UNCHANGED opTx
        /\ UNCHANGED <<accountsSigner, op, opArgs, opAnswer>>

\* return result.toLowerCase() !== NULL_ADDRESS
IsValidatedMutAlways(result) == TRUE
IsValidated(result) == ToLowerCase(result) # NULL_ADDRESS

\* the contract's validateAttestationCode(identifier, account, v, r, s)
\* view call answers
ViewCallAnswers(answer) ==
    /\ opPc = "validateAttestationCode"
    /\ opAnswer' = answer
    /\ CodeReturns(IF IsValidated(answer) THEN "true" ELSE "false")
    /\ UNCHANGED <<accountsSigner, op, opArgs, opTx, opConsulted, opRead>>

\* the registry changes the signer of an issuer of the running call
SignerChanges(issuer, signer) ==
    /\ issuer = opArgs.issuer \/ \E i \in DOMAIN opArgs.issuers :
                                     issuer = opArgs.issuers[i]
    /\ accountsSigner[issuer] # signer
    /\ accountsSigner' = [accountsSigner EXCEPT ![issuer] = signer]
    /\ UNCHANGED <<op, opPc, opArgs, opOutcome, opValue, opError, opTx,
                   opConsulted, opAnswer, opRead>>

\* lists of candidate issuers, repetitions included
RECURSIVE SeqsUpTo(_, _)
SeqsUpTo(S, n) ==
    IF n = 0 THEN {<<>>}
    ELSE LET shorter == SeqsUpTo(S, n - 1)
         IN  shorter \cup {Append(q, x) : q \in shorter, x \in S}

CodeIdle ==
    /\ op = "none"
    /\ opPc = "idle"
    /\ opArgs = NoArgs
    /\ opOutcome = "none"
    /\ opValue = "none"
    /\ opError = NoError
    /\ opTx = {}
    /\ opConsulted = 0
    /\ opAnswer = NULL_ADDRESS
    /\ opRead = <<>>

\* every account is its own attestation signer until the registry is
\* told otherwise
CodeStart ==
    /\ accountsSigner = [a \in Addresses |-> a]
    /\ CodeIdle

\* the variables of the group while another group is exercised
CodeQuiet == CodeStart

\* the continuations of a call on a completion code
CodeSteps ==
    \/ GetAccountsAnswers /\ UNCHANGED outsideCode
    \/ SignerAnswers /\ UNCHANGED outsideCode
    \/ \E answer \in Answers : ViewCallAnswers(answer) /\ UNCHANGED outsideCode
    \/ ChainReadRejects /\ UNCHANGED outsideCode

\* no call on a completion code was made yet
NoCodeCall == op = "none"

\* a read of the registry is still to be answered
SignerReadAhead == opPc \in {"getAccounts", "getAttestationSigner"}

NextCode ==
    \/ /\ NoCodeCall
       /\ \E identifier \in Identifiers, account \in Accounts,
             issuer \in Addresses, code \in Codes :
               Complete(identifier, account, issuer, code)
       /\ UNCHANGED outsideCode
    \/ /\ NoCodeCall
       /\ \E identifier \in Identifiers, account \in Accounts,
             code \in Codes, issuers \in SeqsUpTo(Addresses, MaxIssuers) :
               FindMatchingIssuer(identifier, account, code, issuers)
       /\ UNCHANGED outsideCode
    \/ /\ NoCodeCall
       /\ \E identifier \in Identifiers, account \in Accounts,
             issuer \in Addresses, code \in Codes :
               ValidateAttestationCode(identifier, account, issuer, code)
       /\ UNCHANGED outsideCode
    \/ CodeSteps
    \/ /\ SignerReadAhead
       /\ \E issuer \in Addresses, signer \in Addresses :
              SignerChanges(issuer, signer)
       /\ UNCHANGED outsideCode

(***************************************************************************)
(* lookupIdentifiers.  The contract's batchGetAttestationStats answers     *)
(* four parallel arrays: one match count per identifier, and the flat      *)
(* addresses / completed / total of all the matches, identifier after      *)
(* identifier.  Numbers come over the wire as decimal strings.             *)
(***************************************************************************)
MaxLookup == 2
MaxMatches == 2

\* the on-chain counters an account may have for an identifier
StatsOnChain == {[completed |-> 0, total |-> 1],
                 [completed |-> 1, total |-> 2]}

\* the decimal strings of the numbers of the model
Decimal == [n \in 0..9 |->
              CASE n = 0 -> "0" [] n = 1 -> "1" [] n = 2 -> "2"
                [] n = 3 -> "3" [] n = 4 -> "4" [] n = 5 -> "5"
                [] n = 6 -> "6" [] n = 7 -> "7" [] n = 8 -> "8"
                [] OTHER -> "9"]

\* BaseWrapper.valueToInt: the number a decimal string denotes
ValueToInt(str) == CHOOSE n \in DOMAIN Decimal : Decimal[n] = str

\* .map(valueToInt)
ValuesToInt(q) == [i \in 1..Len(q) |-> ValueToInt(q[i])]

RECURSIVE Flatten(_)
Flatten(qq) == IF qq = <<>> THEN <<>> ELSE Head(qq) \o Flatten(Tail(qq))

\* the accounts mapped to an identifier: no account twice
DistinctSeqs(S, n) ==
    {q \in SeqsUpTo(S, n) :
        \A i, j \in 1..Len(q) : i # j => q[i] # q[j]}

MatchLists ==
    UNION {{[i \in 1..Len(as) |->
                [address |-> as[i], completed |-> st[i].completed,
                 total |-> st[i].total]] :
              st \in [1..Len(as) -> StatsOnChain]} :
           as \in DistinctSeqs(Addresses, MaxMatches)}

\* Attestations.batchGetAttestationStats(identifiers)
BatchGetAttestationStats(identifiers) ==
    LET groups == [i \in 1..Len(identifiers) |-> chainStats[identifiers[i]]]
        flat == Flatten(groups)
    IN  [matches |-> [i \in 1..Len(groups) |-> Decimal[Len(groups[i])]],
         addresses |-> [p \in 1..Len(flat) |-> flat[p].address],
         completed |-> [p \in 1..Len(flat) |-> Decimal[flat[p].completed]],
         total |-> [p \in 1..Len(flat) |-> Decimal[flat[p].total]]]

\* obj[key] = value on a JavaScript object
Assign(obj, key, value) ==
    [k \in DOMAIN obj \cup {key} |-> IF k = key THEN value ELSE obj[k]]

EmptyObject == [k \in {} |-> 0]

\* the inner loop: numberOfMatches entries from the cursor rIndex on
\* (positions count from 1 here, from 0 in the code)
RECURSIVE MatchingFrom(_, _, _, _, _, _)
MatchingFrom(mIndex, numberOfMatches, rIndex, addresses, completed, total) ==
    IF mIndex >= numberOfMatches THEN EmptyObject
    ELSE LET rest == MatchingFrom(mIndex + 1, numberOfMatches, rIndex + 1,
                                  addresses, completed, total)
             here == [completed |-> completed[rIndex + 1],
                      total |-> total[rIndex + 1]]
         IN  \* a later entry of the same address overwrites this one
             IF addresses[rIndex + 1] \in DOMAIN rest
             THEN rest
             ELSE Assign(rest, addresses[rIndex + 1], here)

\* a decoder that starts every identifier's group at the first position
MatchingAddressesMutRestart(numberOfMatches, rIndex, addresses, completed, total) ==
    MatchingFrom(0, numberOfMatches, 0, addresses, completed, total)
MatchingAddresses(numberOfMatches, rIndex, addresses, completed, total) ==
    MatchingFrom(0, numberOfMatches, rIndex, addresses, completed, total)

\* the outer loop from identifier pIndex on, the cursor being rIndex
RECURSIVE LookupFrom(_, _, _, _, _, _, _, _)
LookupFrom(pIndex, rIndex, identifiers, matches, addresses, completed, total, result) ==
    IF pIndex >= Len(identifiers) THEN result
    ELSE LET pHash == identifiers[pIndex + 1]
             numberOfMatches == matches[pIndex + 1]
         IN  IF numberOfMatches = 0
             THEN LookupFrom(pIndex + 1, rIndex, identifiers, matches,
                             addresses, completed, total, result)
             ELSE LookupFrom(pIndex + 1, rIndex + numberOfMatches,
                             identifiers, matches, addresses, completed,
                             total,
                             Assign(result, pHash,
                                    MatchingAddresses(numberOfMatches, rIndex,
                                                      addresses, completed,
                                                      total)))

\* lookupIdentifiers(identifiers), up to
\* await this.contract.methods.batchGetAttestationStats(identifiers).call()
LookupIdentifiers(identifiers) ==
    /\ lkPc = "idle"
    /\ lkPc' = "batchGetAttestationStats"
    /\ lkIdentifiers' = identifiers
    /\ UNCHANGED <<chainStats, lkStats, lkResult, lkError>>

\* the read is answered from the chain as it is now, and the four arrays
\* are decoded
LookupStatsAnswer ==
    LET stats == BatchGetAttestationStats(lkIdentifiers)
        matches == ValuesToInt(stats.matches)
        addresses == stats.addresses
        completed == ValuesToInt(stats.completed)
        total == ValuesToInt(stats.total)
    IN  /\ lkPc = "batchGetAttestationStats"
        /\ lkPc' = "returned"
        /\ lkStats' = stats
        /\ lkResult' = LookupFrom(0, 0, lkIdentifiers, matches, addresses,
                                  completed, total, EmptyObject)
        /\ UNCHANGED <<chainStats, lkIdentifiers, lkError>>

\* the read rejects and the call rejects with its error
LookupStatsReject ==
    /\ lkPc = "batchGetAttestationStats"
    /\ lkPc' = "threw"
    /\ lkError' = ErrChainRead
    /\ UNCHANGED <<chainStats, lkIdentifiers, lkStats, lkResult>>

\* before the read is answered the first account of an identifier revokes
\* its mapping
LookupAccountRevokes(identifier) ==
    /\ lkPc \in {"idle", "batchGetAttestationStats"}
    /\ chainStats[identifier] # <<>>
    /\ chainStats' = [chainStats EXCEPT ![identifier] = Tail(@)]
    /\ UNCHANGED <<lkPc, lkIdentifiers, lkStats, lkResult, lkError>>

LookupIdle ==
    /\ lkPc = "idle"
    /\ lkIdentifiers = <<>>
    /\ lkStats = [matches |-> <<>>, addresses |-> <<>>, completed |-> <<>>,
                  total |-> <<>>]
    /\ lkResult = EmptyObject
    /\ lkError = NoError

\* the chain starts with MaxMatches accounts for every identifier
LookupStart ==
    /\ chainStats \in [Identifiers ->
                          {list \in MatchLists : Len(list) = MaxMatches}]
    /\ LookupIdle

LookupQuiet ==
    /\ chainStats = [id \in Identifiers |-> <<>>]
    /\ LookupIdle

NextLookup ==
    \/ /\ lkPc = "idle"
       /\ \E identifiers \in SeqsUpTo(Identifiers, MaxLookup) :
              LookupIdentifiers(identifiers)
       /\ UNCHANGED outsideLookup
    \/ LookupStatsAnswer /\ UNCHANGED outsideLookup
    \/ LookupStatsReject /\ UNCHANGED outsideLookup
    \/ \E identifier \in Identifiers :
           LookupAccountRevokes(identifier) /\ UNCHANGED outsideLookup

(***************************************************************************)
(* getActionableAttestations and getNonCompliantIssuers.  Both read the    *)
(* completable attestations of (identifier, account) from the contract,    *)
(* probe the attestation service of every issuer of the list, and keep the *)
(* entries found valid, respectively the issuers found not valid.          *)
(* Strings that are decoded character by character (the metadata URLs) are *)
(* sequences of characters.                                                *)
(***************************************************************************)
MaxCandidates == 2

\* concurrentMap(5, ...)
ProbeConcurrency == 5

ProbeMethods == {"getActionableAttestations", "getNonCompliantIssuers"}

\* the block number of the request an issuer was selected for, and the
\* metadata URL the issuer registered ("" when it registered none)
BlockOf(issuer) ==
    CASE issuer = "0xaa" -> 3 [] issuer = "0xbb" -> 5 [] OTHER -> 7
MetadataURLOf(issuer) ==
    CASE issuer = "0xaa" -> <<"a">> [] issuer = "0xbb" -> <<>>
      [] OTHER -> <<"c", "c">>

CompletableOf(issuer) ==
    [blockNumber |-> BlockOf(issuer), issuer |-> issuer,
     metadataURL |-> MetadataURLOf(issuer)]

\* the lists the contract may hold: an issuer is selected at most once for
\* an (identifier, account)
CandidateLists ==
    {[i \in 1..Len(q) |-> CompletableOf(q[i])] :
        q \in DistinctSeqs(Addresses, MaxCandidates)}

\* Attestations.getCompletableAttestations(identifier, account): block
\* numbers, issuers, lengths of the metadata URLs, the URLs concatenated
\* (response[0..3] of the code are positions 1..4 here)
GetCompletableAttestations(entries) ==
    <<[i \in 1..Len(entries) |-> Decimal[entries[i].blockNumber]],
      [i \in 1..Len(entries) |-> entries[i].issuer],
      [i \in 1..Len(entries) |-> Decimal[Len(entries[i].metadataURL)]],
      Flatten([i \in 1..Len(entries) |-> entries[i].metadataURL])>>

\* parseSolidityStringArray(stringLengths, data): consecutive slices of data
RECURSIVE ParseSolidityStringArray(_, _)
ParseSolidityStringArray(stringLengths, data) ==
    IF stringLengths = <<>> THEN <<>>
    ELSE LET n == Min(Head(stringLengths), Len(data))
         IN  <<SubSeq(data, 1, n)>> \o
             ParseSolidityStringArray(Tail(stringLengths),
                                      SubSeq(data, n + 1, Len(data)))

\* zip3 of @celo/base: triples up to the shortest of the three arrays
Zip3(as, bs, cs) ==
    [i \in 1..Min(Len(as), Min(Len(bs), Len(cs))) |-> <<as[i], bs[i], cs[i]>>]

\* the lengths taken from the wrong field of the response
ParseGetCompletableAttestationsMutLengths(response) ==
    LET metadataURLs ==
            ParseSolidityStringArray(ValuesToInt(response[1]),
                                     response[4])
        zipped == Zip3(ValuesToInt(response[1]), response[2],
                       metadataURLs)
    IN  [i \in 1..Len(zipped) |->
            [blockNumber |-> zipped[i][1], issuer |-> zipped[i][2],
             metadataURL |-> zipped[i][3]]]
ParseGetCompletableAttestations(response) ==
    LET metadataURLs ==
            ParseSolidityStringArray(ValuesToInt(response[3]),
                                     response[4])
        zipped == Zip3(ValuesToInt(response[1]), response[2],
                       metadataURLs)
    IN  [i \in 1..Len(zipped) |->
            [blockNumber |-> zipped[i][1], issuer |-> zipped[i][2],
             metadataURL |-> zipped[i][3]]]

\* what the network answers to one probe: the outcome of each step of
\* makeIsIssuerRunningAttestationService
ServiceURL == "https://service"
ServiceVersion == "1.1.0"

\* what the network answers to one probe: the metadata fetch, the claims
\* found, the status request and its body
Healthy ==
    [metadata |-> "ok", urlClaim |-> TRUE, nameClaim |-> TRUE,
     fetch |-> "ok", ok |-> TRUE, json |-> "ok", status |-> "ok",
     url |-> ServiceURL, name |-> "name", version |-> ServiceVersion]

ProbeAnswers ==
    {Healthy,
     [Healthy EXCEPT !.nameClaim = FALSE],
     [Healthy EXCEPT !.metadata = "throws"],
     [Healthy EXCEPT !.urlClaim = FALSE],
     [Healthy EXCEPT !.fetch = "throws"],
     [Healthy EXCEPT !.ok = FALSE],
     [Healthy EXCEPT !.json = "throws"],
     [Healthy EXCEPT !.status = "down"]}

NotRunning(arg) == [isValid |-> FALSE, issuer |-> arg.issuer]

\* a probe whose error is not caught rejects
Rejected(arg) == [isValid |-> FALSE, issuer |-> arg.issuer, threw |-> TRUE]

\* catch (error) { return { isValid: false, issuer: arg.issuer } }
CaughtMutRethrow(arg) == Rejected(arg)
Caught(arg) == NotRunning(arg)

\* the function makeIsIssuerRunningAttestationService(tries) returns,
\* applied to arg when the network answers answer
IsIssuerRunningAttestationServiceMutAnyStatus(arg, answer) ==
    IF answer.metadata = "throws" THEN Caught(arg)
    ELSE IF ~answer.urlClaim THEN Caught(arg)
    ELSE IF answer.fetch = "throws" THEN Caught(arg)
    ELSE IF ~answer.ok THEN Caught(arg)
    ELSE IF answer.json = "throws" THEN Caught(arg)
    ELSE [isValid |-> TRUE,
          result |-> [blockNumber |-> arg.blockNumber,
                      issuer |-> arg.issuer,
                      attestationServiceURL |-> answer.url,
                      name |-> IF answer.nameClaim THEN answer.name
                               ELSE "undefined",
                      version |-> answer.version]]
IsIssuerRunningAttestationServiceMutNameAlways(arg, answer) ==
    IF answer.metadata = "throws" THEN Caught(arg)
    ELSE IF ~answer.urlClaim THEN Caught(arg)
    ELSE IF answer.fetch = "throws" THEN Caught(arg)
    ELSE IF ~answer.ok THEN Caught(arg)
    ELSE IF answer.json = "throws" THEN Caught(arg)
    ELSE IF answer.status # "ok" THEN NotRunning(arg)
    ELSE [isValid |-> TRUE,
          result |-> [blockNumber |-> arg.blockNumber,
                      issuer |-> arg.issuer,
                      attestationServiceURL |-> answer.url,
                      name |-> answer.name,
                      version |-> answer.version]]
IsIssuerRunningAttestationService(arg, answer) ==
    IF answer.metadata = "throws" THEN Caught(arg)
    ELSE IF ~answer.urlClaim THEN Caught(arg)            \* throw new Error
    ELSE IF answer.fetch = "throws" THEN Caught(arg)
    ELSE IF ~answer.ok THEN Caught(arg)                  \* throw new Error
    ELSE IF answer.json = "throws" THEN Caught(arg)
    ELSE IF answer.status # "ok" THEN NotRunning(arg)
    ELSE [isValid |-> TRUE,
          result |-> [blockNumber |-> arg.blockNumber,
                      issuer |-> arg.issuer,
                      attestationServiceURL |-> answer.url,
                      name |-> IF answer.nameClaim THEN answer.name
                               ELSE "undefined",
                      version |-> answer.version]]

\* results.map((_) => (_.isValid ? _.result : null)).filter(notEmpty)
ActionableOfMutReversed(results) ==
    LET kept == SelectSeq(results, LAMBDA r : r.isValid)
    IN  [i \in 1..Len(kept) |-> kept[Len(kept) + 1 - i].result]
ActionableOf(results) ==
    LET kept == SelectSeq(results, LAMBDA r : r.isValid)
    IN  [i \in 1..Len(kept) |-> kept[i].result]

\* results.map((_) => (_.isValid ? null : _.issuer)).filter(notEmpty)
NonCompliantOfMutValid(results) ==
    LET kept == SelectSeq(results, LAMBDA r : r.isValid)
    IN  [i \in 1..Len(kept) |-> kept[i].result.issuer]
NonCompliantOf(results) ==
    LET kept == SelectSeq(results, LAMBDA r : ~r.isValid)
    IN  [i \in 1..Len(kept) |-> kept[i].issuer]

ReturnValue(method, results) ==
    IF method = "getActionableAttestations" THEN ActionableOf(results)
    ELSE NonCompliantOf(results)

Unresolved == [pending |-> TRUE]

\* the answer lets every step of a probe pass
AllStepsPass(answer) ==
    /\ answer.metadata = "ok"
    /\ answer.urlClaim
    /\ answer.fetch = "ok"
    /\ answer.ok
    /\ answer.json = "ok"
    /\ answer.status = "ok"

\* what is observed of a call: the list the chain held when it was read,
\* per entry the number of probes started and whether every step of its
\* probe passed, and whether a probe resolved before one of a smaller index
NothingSeen == [chain |-> <<>>, probes |-> <<>>, passed |-> <<>>,
                reordered |-> FALSE]

NotCalled == [state |-> "none", entries |-> <<>>, valid |-> <<>>,
              value |-> <<>>, seen |-> NothingSeen, error |-> NoError]

\* what a call that returns leaves behind: the list it read, how it
\* classified each entry, the value it returned
Returned(method, entries, results, seen) ==
    [state |-> "returned", entries |-> entries,
     valid |-> [i \in 1..Len(results) |-> results[i].isValid],
     value |-> ReturnValue(method, results), seen |-> seen,
     error |-> NoError]

\* what a call that rejects leaves behind
Threw(entries, seen, error) ==
    [state |-> "threw", entries |-> entries, valid |-> <<>>, value |-> <<>>,
     seen |-> seen, error |-> error]

\* concurrentMap of @celo/base: the slice of at most concurrency entries
\* that follows the started ones
ConcurrentMapSlice(concurrency, started, n) ==
    (started + 1)..Min(started + concurrency, n)

\* concurrentMap(5, parseGetCompletableAttestations(result), ...)
NextSliceMutAll(started, n) == (started + 1)..n
NextSlice(started, n) == ConcurrentMapSlice(ProbeConcurrency, started, n)

\* the probes of a slice are started
StartProbes(seen, slice) ==
    [seen EXCEPT !.probes = [i \in DOMAIN seen.probes |->
                               IF i \in slice THEN seen.probes[i] + 1
                               ELSE seen.probes[i]]]

\* a probe that is not running: not started yet, or resolved
NoProbe == [at |-> "none", got |-> Healthy]

\* a probe that has just been called: it awaits
\* IdentityMetadataWrapper.fetchFromURL and has received no answer; a step
\* that has not been answered is held as passing, the function returns at
\* the first step that fails
ProbeCalled == [at |-> "fetchFromURL", got |-> Healthy]

\* slice.map(mapFn): every probe of the slice runs up to its first await
CallProbes(probes, slice) ==
    [i \in DOMAIN probes |-> IF i \in slice THEN ProbeCalled ELSE probes[i]]

\* what fetchFromURL and the two findClaim calls give the probe
MetadataPart(got, answer) ==
    [got EXCEPT !.metadata = answer.metadata, !.urlClaim = answer.urlClaim,
                !.nameClaim = answer.nameClaim, !.url = answer.url,
                !.name = answer.name]

\* what fetch(.../status) gives the probe: a response, or an error
StatusPart(got, answer) ==
    [got EXCEPT !.fetch = answer.fetch, !.ok = answer.ok]

\* what resp.json() gives the probe
BodyPart(got, answer) ==
    [got EXCEPT !.json = answer.json, !.status = answer.status,
                !.version = answer.version]

\* fetchFromURL rejects, or the metadata holds no service-URL claim
MetadataStops(answer) == answer.metadata = "throws" \/ ~answer.urlClaim

\* fetch rejects, or the response is not ok
StatusStops(answer) == answer.fetch = "throws" \/ ~answer.ok

ProbeRest ==
    /\ pPc' = "idle"
    /\ pMethod' = "none"
    /\ pEntries' = <<>>
    /\ pStarted' = 0
    /\ pInflight' = {}
    /\ pResults' = <<>>
    /\ pProbes' = <<>>
    /\ pSeen' = NothingSeen

\* getActionableAttestations(identifier, account) or
\* getNonCompliantIssuers(identifier, account) is called: the call awaits
\* getCompletableAttestations(identifier, account).call()
ProbeCall(method) ==
    /\ pPc = "idle"
    /\ pCalls[method].state = "none"
    /\ pPc' = "getCompletableAttestations"
    /\ pMethod' = method
    /\ UNCHANGED <<chainCompletable, pEntries, pStarted, pInflight, pResults,
                   pProbes, pSeen, pCalls>>

\* the contract answers with the list it holds now: the list is parsed and
\* concurrentMap calls the probes of the first slice; over an empty list
\* the call returns
ProbeChainAnswers ==
    LET entries == ParseGetCompletableAttestations(
                       GetCompletableAttestations(chainCompletable))
        slice == NextSlice(0, Len(entries))
        seen == [chain |-> chainCompletable,
                 probes |-> [i \in 1..Len(entries) |-> 0],
                 passed |-> [i \in 1..Len(entries) |-> FALSE],
                 reordered |-> FALSE]
    IN  /\ pPc = "getCompletableAttestations"
        /\ IF entries = <<>>
           THEN /\ pCalls' = [pCalls EXCEPT
                                ![pMethod] = Returned(pMethod, <<>>, <<>>,
                                                      seen)]
                /\ ProbeRest
           ELSE /\ pPc' = "probing"
                /\ pEntries' = entries
                /\ pStarted' = Cardinality(slice)
                /\ pInflight' = slice
                /\ pResults' = [i \in 1..Len(entries) |-> Unresolved]
                /\ pProbes' = CallProbes([i \in 1..Len(entries) |-> NoProbe],
                                         slice)
                /\ pSeen' = StartProbes(seen, slice)
                /\ UNCHANGED <<pMethod, pCalls>>
        /\ UNCHANGED chainCompletable

\* the read of the contract rejects: the call rejects with the error of
\* the read, no probe was called
ProbeChainRejects ==
    /\ pPc = "getCompletableAttestations"
    /\ pCalls' = [pCalls EXCEPT
                    ![pMethod] = Threw(<<>>, NothingSeen, ErrChainRead)]
    /\ ProbeRest
    /\ UNCHANGED chainCompletable

\* the probe of entry i resolves, got being the answers it received.  A
\* probe that rejects makes the call reject; otherwise the last probe of a
\* slice lets concurrentMap call the probes of the next slice or, after the
\* last slice, lets the call return
ProbeResolves(i, got) ==
    LET result == IsIssuerRunningAttestationService(pEntries[i], got)
        results == [pResults EXCEPT ![i] = result]
        inflight == pInflight \ {i}
        slice == NextSlice(pStarted, Len(pEntries))
        probes == [pProbes EXCEPT ![i] = NoProbe]
        seen == [pSeen EXCEPT
                   !.passed[i] = AllStepsPass(got),
                   !.reordered = @ \/ \E j \in pInflight : j < i]
    IN  IF "threw" \in DOMAIN result
        THEN /\ pCalls' = [pCalls EXCEPT
                             ![pMethod] = Threw(pEntries, seen,
                                                "probe rejected")]
             /\ ProbeRest
        ELSE IF inflight # {}
        THEN /\ pResults' = results
             /\ pInflight' = inflight
             /\ pProbes' = probes
             /\ pSeen' = seen
             /\ UNCHANGED <<pPc, pMethod, pEntries, pStarted, pCalls>>
        ELSE IF slice # {}
        THEN /\ pResults' = results
             /\ pInflight' = slice
             /\ pStarted' = pStarted + Cardinality(slice)
             /\ pProbes' = CallProbes(probes, slice)
             /\ pSeen' = StartProbes(seen, slice)
             /\ UNCHANGED <<pPc, pMethod, pEntries, pCalls>>
        ELSE /\ pCalls' = [pCalls EXCEPT
                             ![pMethod] = Returned(pMethod, pEntries,
                                                   results, seen)]
             /\ ProbeRest

\* the probe of entry i moves on to its next await
ProbeAwaits(i, at, got) ==
    /\ pProbes' = [pProbes EXCEPT ![i] = [at |-> at, got |-> got]]
    /\ UNCHANGED <<pPc, pMethod, pEntries, pStarted, pInflight, pResults,
                   pSeen, pCalls>>

\* IdentityMetadataWrapper.fetchFromURL of the probe of entry i answers or
\* rejects: the claims are looked for and the status of the service is
\* requested, or the error is caught
ProbeFetchFromURL(i, answer) ==
    LET got == MetadataPart(pProbes[i].got, answer)
    IN  /\ pPc = "probing"
        /\ i \in pInflight
        /\ pProbes[i].at = "fetchFromURL"
        /\ IF MetadataStops(answer) THEN ProbeResolves(i, got)
           ELSE ProbeAwaits(i, "fetch", got)
        /\ UNCHANGED chainCompletable

\* fetch(.../status) of the probe of entry i answers or rejects: the body
\* of an ok response is read, otherwise the error is caught
ProbeFetch(i, answer) ==
    LET got == StatusPart(pProbes[i].got, answer)
    IN  /\ pPc = "probing"
        /\ i \in pInflight
        /\ pProbes[i].at = "fetch"
        /\ IF StatusStops(answer) THEN ProbeResolves(i, got)
           ELSE ProbeAwaits(i, "json", got)
        /\ UNCHANGED chainCompletable

\* resp.json() of the probe of entry i answers or rejects: the probe
\* resolves
ProbeJson(i, answer) ==
    /\ pPc = "probing"
    /\ i \in pInflight
    /\ pProbes[i].at = "json"
    /\ ProbeResolves(i, BodyPart(pProbes[i].got, answer))
    /\ UNCHANGED chainCompletable

\* what each await of a probe may be answered
MetadataAnswers ==
    {Healthy, [Healthy EXCEPT !.nameClaim = FALSE],
     [Healthy EXCEPT !.metadata = "throws"],
     [Healthy EXCEPT !.urlClaim = FALSE]}
StatusAnswers ==
    {Healthy, [Healthy EXCEPT !.fetch = "throws"],
     [Healthy EXCEPT !.ok = FALSE]}
BodyAnswers ==
    {Healthy, [Healthy EXCEPT !.json = "throws"],
     [Healthy EXCEPT !.status = "down"]}

\* the chain moves on while no call has read the list: the attestation of
\* entry i is completed or expires and leaves the completable list
CompletableLeaves(i) ==
    /\ pPc \in {"idle", "getCompletableAttestations"}
    /\ i \in 1..Len(chainCompletable)
    /\ chainCompletable' =
           [j \in 1..(Len(chainCompletable) - 1) |->
               IF j < i THEN chainCompletable[j] ELSE chainCompletable[j + 1]]
    /\ UNCHANGED <<pPc, pMethod, pEntries, pStarted, pInflight, pResults,
                   pProbes, pSeen, pCalls>>

ProbeIdle ==
    /\ pPc = "idle"
    /\ pMethod = "none"
    /\ pEntries = <<>>
    /\ pStarted = 0
    /\ pInflight = {}
    /\ pResults = <<>>
    /\ pProbes = <<>>
    /\ pSeen = NothingSeen
    /\ pCalls = [m \in ProbeMethods |-> NotCalled]

ProbeStart ==
    /\ chainCompletable \in CandidateLists
    /\ ProbeIdle

ProbeQuiet ==
    /\ chainCompletable = <<>>
    /\ ProbeIdle

NextProbe ==
    \/ \E method \in ProbeMethods :
           ProbeCall(method) /\ UNCHANGED outsideProbe
    \/ ProbeChainAnswers /\ UNCHANGED outsideProbe
    \/ ProbeChainRejects /\ UNCHANGED outsideProbe
    \/ \E i \in 1..MaxCandidates, answer \in MetadataAnswers :
           ProbeFetchFromURL(i, answer) /\ UNCHANGED outsideProbe
    \/ \E i \in 1..MaxCandidates, answer \in StatusAnswers :
           ProbeFetch(i, answer) /\ UNCHANGED outsideProbe
    \/ \E i \in 1..MaxCandidates, answer \in BodyAnswers :
           ProbeJson(i, answer) /\ UNCHANGED outsideProbe
    \/ \E i \in 1..MaxCandidates :
           CompletableLeaves(i) /\ UNCHANGED outsideProbe

(***************************************************************************)
(* The same two methods on lists longer than one slice of concurrentMap;   *)
(* one call is observed.                                                   *)
(***************************************************************************)
MaxOverflow == 1

\* the longest list: one slice and MaxOverflow entries more
PoolSize == ProbeConcurrency + MaxOverflow

IssuerPool == <<"0xa1", "0xa2", "0xa3", "0xa4", "0xa5", "0xa6", "0xa7",
                "0xa8", "0xa9">>

\* the lists the contract may hold: entry i was requested at block i
PoolLists ==
    {[i \in 1..n |-> [blockNumber |-> i, issuer |-> IssuerPool[i],
                      metadataURL |-> <<"m">>]] : n \in 0..PoolSize}

PoolStart ==
    /\ chainCompletable \in PoolLists
    /\ ProbeIdle

NextPool ==
    \/ \E method \in ProbeMethods :
           /\ \A m \in ProbeMethods : pCalls[m].state = "none"
           /\ ProbeCall(method)
           /\ UNCHANGED outsideProbe
    \/ ProbeChainAnswers /\ UNCHANGED outsideProbe
    \/ ProbeChainRejects /\ UNCHANGED outsideProbe
    \/ \E i \in 1..PoolSize, answer \in MetadataAnswers :
           ProbeFetchFromURL(i, answer) /\ UNCHANGED outsideProbe
    \/ \E i \in 1..PoolSize, answer \in StatusAnswers :
           ProbeFetch(i, answer) /\ UNCHANGED outsideProbe
    \/ \E i \in 1..PoolSize, answer \in BodyAnswers :
           ProbeJson(i, answer) /\ UNCHANGED outsideProbe

(***************************************************************************)
(* revoke.  The contract lists the accounts mapped to an identifier; the   *)
(* account to revoke is looked for in that list with eqAddress, which      *)
(* compares two addresses ignoring letter case.                            *)
(***************************************************************************)
MaxAccounts == 2

\* the forms in which the contract may list an address, and the forms in
\* which the caller may write the account
ListedForms == {"0xaa", "0xAA", "0xbb", "0xcc"}
CallerForms == {"0xaa", "0xAA", "0xBB", "0xcc"}

\* eqAddress of @celo/base: equal once normalised to lower case
EqAddress(a, b) == ToLowerCase(a) = ToLowerCase(b)

\* accounts.findIndex((acc) => eqAddress(acc, account)): the first index,
\* counted from 0, of an entry equal to account; -1 when there is none
RECURSIVE FindIndexFrom(_, _, _)
FindIndexFrom(i, accounts, account) ==
    IF i > Len(accounts) THEN 0 - 1
    ELSE IF EqAddress(accounts[i], account) THEN i - 1
         ELSE FindIndexFrom(i + 1, accounts, account)

\* an index counted from 1
FindIndexMutOneBased(accounts, account) ==
    FindIndexFrom(1, accounts, account) + 1
FindIndex(accounts, account) == FindIndexFrom(1, accounts, account)

ErrAccountNotFound == "Account not found in identifier's accounts"

\* this.contract.methods.revoke(identifer, idx)
RevokeTx(identifier, idx) ==
    [method |-> "revoke", identifier |-> identifier, index |-> idx]

\* this.lookupAccountsForIdentifier(identifer)
LookupAccountsForIdentifier(identifier) == chainAccounts[identifier]

\* revoke(identifer, account), up to
\* await this.lookupAccountsForIdentifier(identifer)
Revoke(identifier, account) ==
    /\ rvPc = "idle"
    /\ rvPc' = "lookupAccountsForIdentifier"
    /\ rvArgs' = [identifier |-> identifier, account |-> account]
    /\ UNCHANGED <<chainAccounts, rvError, rvTx, rvList>>

\* the list is answered from the chain as it is now; findIndex decides
RevokeListAnswers ==
    LET accounts == LookupAccountsForIdentifier(rvArgs.identifier)
        idx == FindIndex(accounts, rvArgs.account)
    IN  /\ rvPc = "lookupAccountsForIdentifier"
        /\ rvList' = accounts
        /\ IF idx < 0
           THEN /\ rvPc' = "threw"
                /\ rvError' = ErrAccountNotFound
                /\ rvTx' = {}
           ELSE /\ rvPc' = "returned"
                /\ rvError' = NoError
                /\ rvTx' = {RevokeTx(rvArgs.identifier, idx)}
        /\ UNCHANGED <<chainAccounts, rvArgs>>

\* the read rejects and the call rejects with its error
RevokeListRejects ==
    /\ rvPc = "lookupAccountsForIdentifier"
    /\ rvPc' = "threw"
    /\ rvError' = ErrChainRead
    /\ UNCHANGED <<chainAccounts, rvArgs, rvTx, rvList>>

\* before the read is answered the first account listed for an
\* identifier revokes its mapping
ListedAccountRevokes(identifier) ==
    /\ rvPc \in {"idle", "lookupAccountsForIdentifier"}
    /\ chainAccounts[identifier] # <<>>
    /\ chainAccounts' = [chainAccounts EXCEPT ![identifier] = Tail(@)]
    /\ UNCHANGED <<rvPc, rvArgs, rvError, rvTx, rvList>>

RevokeIdle ==
    /\ rvPc = "idle"
    /\ rvArgs = [identifier |-> "", account |-> ""]
    /\ rvError = NoError
    /\ rvTx = {}
    /\ rvList = <<>>

\* the chain starts with MaxAccounts accounts listed for every identifier
RevokeStart ==
    /\ chainAccounts \in
          [Identifiers -> {list \in SeqsUpTo(ListedForms, MaxAccounts) :
                              Len(list) = MaxAccounts}]
    /\ RevokeIdle

RevokeQuiet ==
    /\ chainAccounts = [id \in Identifiers |-> <<>>]
    /\ RevokeIdle

NextRevoke ==
    \/ /\ rvPc = "idle"
       /\ \E identifier \in Identifiers, account \in CallerForms :
              Revoke(identifier, account)
       /\ UNCHANGED outsideRevoke
    \/ RevokeListAnswers /\ UNCHANGED outsideRevoke
    \/ RevokeListRejects /\ UNCHANGED outsideRevoke
    \/ \E identifier \in Identifiers :
           ListedAccountRevokes(identifier) /\ UNCHANGED outsideRevoke

(***************************************************************************)
(* getAttestationServiceStatus.  The call goes from one await to the next; *)
(* what the chain, the metadata host and the attestation service answer is *)
(* the environment's choice at each step.                                  *)
(***************************************************************************)
Validators == {"0xaa", "0xBB"}
\* accountAddress values a status response may report
ReportedAccounts == {"0xaa", "0xAA", "0xbb", "0xcc"}

\* metadata URLs registered on chain ("" when none is registered)
MetadataURLs == {"", "http://meta", "https://meta", "HTTP://meta"}

\* metadataURL.startsWith('http://') on the URLs of the model
StartsWithHttpMutAnyCase(url) == url \in {"http://meta", "HTTP://meta"}
StartsWithHttp(url) == url = "http://meta"

\* ageOfLatestBlock > 10
StaleAge == 10
\* ageOfLatestBlock: null
NullAge == 0 - 1
Ages == {NullAge, StaleAge, StaleAge + 1, StaleAge + 10}

NullError == [type |-> "null", message |-> ""]
\* errors of the fetch layer: network-level, unparsable body, validation
SystemError == [type |-> "system", message |-> "network"]
InvalidJsonError == [type |-> "invalid-json", message |-> "body"]
PlainError == [type |-> "undefined", message |-> "validation"]
\* the error a healthz body may embed
HealthzError == [type |-> "undefined", message |-> "unhealthy"]

\* what IdentityMetadataWrapper.fetchFromURL followed by findClaim yields
MetadataOutcomes ==
    {[kind |-> "ok", claim |-> TRUE, error |-> NullError],
     [kind |-> "ok", claim |-> FALSE, error |-> NullError],
     [kind |-> "throws", claim |-> FALSE, error |-> SystemError],
     [kind |-> "throws", claim |-> FALSE, error |-> InvalidJsonError],
     [kind |-> "throws", claim |-> FALSE, error |-> PlainError]}

NoOutcome == [kind |-> "none", claim |-> FALSE, error |-> NullError]

\* the bodies a status endpoint may answer
StatusBodies ==
    [accountAddress : ReportedAccounts,
     version : {"undefined", ServiceVersion},
     ageOfLatestBlock : Ages,
     isNodeSyncing : {"true", "false", "undefined"},
     smsProviders : {<<"twilio">>}]

NoBody == [accountAddress |-> "", version |-> "undefined",
           ageOfLatestBlock |-> NullAge, isNodeSyncing |-> "undefined",
           smsProviders |-> <<>>]

\* the healthz bodies: {} and { error: ... }
HealthzBodies == {[error |-> NullError], [error |-> HealthzError]}

\* const ret: AttestationServiceStatusResponse = { ... }
InitialRet(validator, hasAttestationSigner, attestationSigner) ==
    [address |-> validator,
     hasAttestationSigner |-> hasAttestationSigner,
     attestationSigner |-> attestationSigner,
     attestationServiceURL |-> "null",
     okStatus |-> FALSE,
     error |-> NullError,
     smsProviders |-> <<>>,
     rightAccount |-> FALSE,
     metadataURL |-> "null",
     state |-> "NoAttestationSigner",
     version |-> "null",
     ageOfLatestBlock |-> NullAge]

NoRet == InitialRet("", FALSE, "")

\* getAttestationServiceStatus(validator): the call awaits
\* this.kit.contracts.getAccounts()
StatusCall(validator) ==
    /\ ssPc = "idle"
    /\ ssPc' = "getAccounts"
    /\ ssValidator' = validator
    /\ UNCHANGED <<ssHasSigner, ssRet, ssBody, ssHealthzOk, ssRequests,
                   ssMetadata, ssStatus, ssHealthz>>

\* getAccounts answers; accounts.hasAuthorizedAttestationSigner is called
StatusGetAccounts ==
    /\ ssPc = "getAccounts"
    /\ ssPc' = "hasAuthorizedAttestationSigner"
    /\ UNCHANGED <<ssValidator, ssHasSigner, ssRet, ssBody, ssHealthzOk,
                   ssRequests, ssMetadata, ssStatus, ssHealthz>>

\* the awaits outside the try blocks: a rejected read rejects the call
StatusChainReads ==
    {"getAccounts", "hasAuthorizedAttestationSigner", "getAttestationSigner",
     "getMetadataURL"}

StatusChainReadRejects ==
    /\ ssPc \in StatusChainReads
    /\ ssPc' = "threw"
    /\ UNCHANGED <<ssValidator, ssHasSigner, ssRet, ssBody, ssHealthzOk,
                   ssRequests, ssMetadata, ssStatus, ssHealthz>>

\* accounts.hasAuthorizedAttestationSigner(validator.address) answers
StatusHasAuthorizedAttestationSigner(answer) ==
    /\ ssPc = "hasAuthorizedAttestationSigner"
    /\ ssHasSigner' = answer
    /\ ssPc' = "getAttestationSigner"
    /\ UNCHANGED <<ssValidator, ssRet, ssBody, ssHealthzOk, ssRequests,
                   ssMetadata, ssStatus, ssHealthz>>

\* accounts.getAttestationSigner answers; ret is built; without a signer
\* the call returns, otherwise the metadata URL is read
StatusGetAttestationSigner(signer) ==
    /\ ssPc = "getAttestationSigner"
    /\ ssRet' = InitialRet(ssValidator, ssHasSigner, signer)
    /\ IF ~ssHasSigner
       THEN ssPc' = "returned" /\ UNCHANGED ssRequests
       ELSE /\ ssPc' = "getMetadataURL"
            /\ ssRequests' = ssRequests \cup {"getMetadataURL"}
    /\ UNCHANGED <<ssValidator, ssHasSigner, ssBody, ssHealthzOk, ssMetadata,
                   ssStatus, ssHealthz>>

\* accounts.getMetadataURL answers
StatusGetMetadataURL(metadataURL) ==
    /\ ssPc = "getMetadataURL"
    /\ IF metadataURL = ""
       THEN /\ ssRet' = [ssRet EXCEPT !.metadataURL = metadataURL,
                                      !.state = "NoMetadataURL"]
            /\ ssPc' = "returned"
            /\ UNCHANGED ssRequests
       ELSE IF StartsWithHttp(metadataURL)
       THEN /\ ssRet' = [ssRet EXCEPT
                           !.metadataURL = metadataURL,
                           !.state = "InvalidAttestationServiceURL"]
            /\ ssPc' = "returned"
            /\ UNCHANGED ssRequests
       ELSE /\ ssRet' = [ssRet EXCEPT !.metadataURL = metadataURL]
            /\ ssPc' = "fetchFromURL"
            /\ ssRequests' = ssRequests \cup {"metadata"}
    /\ UNCHANGED <<ssValidator, ssHasSigner, ssBody, ssHealthzOk, ssMetadata,
                   ssStatus, ssHealthz>>

\* error.type === 'system' ? MetadataTimeout : InvalidMetadata
MetadataFailureStateMutAlwaysInvalid(error) == "InvalidMetadata"
MetadataFailureState(error) ==
    IF error.type = "system" THEN "MetadataTimeout" ELSE "InvalidMetadata"

\* fetchFromURL and findClaim end: the try block of the metadata
StatusFetchFromURL(outcome) ==
    /\ ssPc = "fetchFromURL"
    /\ IF outcome.kind = "throws"
       THEN /\ ssRet' = [ssRet EXCEPT
                           !.state = MetadataFailureState(outcome.error),
                           !.error = outcome.error]
            /\ ssPc' = "returned"
            /\ UNCHANGED ssRequests
       ELSE IF ~outcome.claim
       THEN /\ ssRet' = [ssRet EXCEPT !.state = "NoAttestationServiceURL"]
            /\ ssPc' = "returned"
            /\ UNCHANGED ssRequests
       ELSE /\ ssRet' = [ssRet EXCEPT !.attestationServiceURL = ServiceURL]
            /\ ssPc' = "status"
            /\ ssRequests' = ssRequests \cup {"status"}
    /\ ssMetadata' = outcome
    /\ UNCHANGED <<ssValidator, ssHasSigner, ssBody, ssHealthzOk, ssStatus,
                   ssHealthz>>

\* fetch(appendPath(attestationServiceURL, 'status')) ends: it throws, or
\* answers with a non-2xx or a 2xx code
StatusFetchStatus(outcome) ==
    /\ ssPc = "status"
    /\ IF outcome = "throws"
       THEN /\ ssRet' = [ssRet EXCEPT
                           !.state = "UnreachableAttestationService",
                           !.error = SystemError]
            /\ ssPc' = "returned"
       ELSE IF outcome = "non2xx"
       THEN /\ ssRet' = [ssRet EXCEPT
                           !.state = "UnreachableAttestationService"]
            /\ ssPc' = "returned"
       ELSE /\ ssRet' = [ssRet EXCEPT !.okStatus = TRUE]
            /\ ssPc' = "statusJson"
    /\ ssStatus' = outcome
    /\ UNCHANGED <<ssValidator, ssHasSigner, ssBody, ssHealthzOk, ssRequests,
                   ssMetadata, ssHealthz>>

\* the state the account comparison gives
AccountStateMutAlwaysValid(rightAccount) == "Valid"
AccountState(rightAccount) == IF rightAccount THEN "Valid" ELSE "WrongAccount"

\* if (statusResponseBody.version)
DeclaresVersionMutAlways(body) == TRUE
DeclaresVersion(body) == body.version # "undefined"

\* statusResponse.json() ends: it throws or gives the body; the fields are
\* copied; with a version the healthz request is issued, without one the
\* call returns
StatusJson(thrown, body) ==
    /\ ssPc = "statusJson"
    /\ IF thrown
       THEN /\ ssRet' = [ssRet EXCEPT
                           !.state = "UnreachableAttestationService",
                           !.error = InvalidJsonError]
            /\ ssPc' = "returned"
            /\ UNCHANGED <<ssBody, ssRequests>>
       ELSE LET rightAccount == EqAddress(ssValidator, body.accountAddress)
                copied == [ssRet EXCEPT
                             !.smsProviders = body.smsProviders,
                             !.rightAccount = rightAccount,
                             !.state = AccountState(rightAccount),
                             !.ageOfLatestBlock = body.ageOfLatestBlock]
            IN  /\ ssBody' = body
                /\ IF DeclaresVersion(body)
                   THEN /\ ssRet' = [copied EXCEPT !.version = body.version]
                        /\ ssPc' = "healthz"
                        /\ ssRequests' = ssRequests \cup {"healthz"}
                   ELSE /\ ssRet' = [copied EXCEPT !.version = "1.0.0"]
                        /\ ssPc' = "returned"
                        /\ UNCHANGED ssRequests
    /\ UNCHANGED <<ssValidator, ssHasSigner, ssHealthzOk, ssMetadata,
                   ssStatus, ssHealthz>>

\* ageOfLatestBlock !== null && ageOfLatestBlock > 10, or isNodeSyncing
NodeUnhealthyMutNever(body) == FALSE
NodeUnhealthy(body) ==
    \/ body.ageOfLatestBlock # NullAge /\ body.ageOfLatestBlock > StaleAge
    \/ body.isNodeSyncing = "true"

\* the override that follows the healthz try block
FullNodeCheck(ret, body) ==
    IF NodeUnhealthy(body) THEN [ret EXCEPT !.state = "Unhealthy"] ELSE ret

\* fetch(appendPath(attestationServiceURL, 'healthz')) ends
StatusFetchHealthz(outcome) ==
    /\ ssPc = "healthz"
    /\ IF outcome = "throws"
       THEN /\ ssRet' = FullNodeCheck(
                            [ssRet EXCEPT !.state = "UnreachableHealthz"],
                            ssBody)
            /\ ssHealthz' = "fetch threw"
            /\ ssPc' = "returned"
            /\ UNCHANGED ssHealthzOk
       ELSE /\ ssHealthzOk' = (outcome = "2xx")
            /\ ssPc' = "healthzJson"
            /\ UNCHANGED <<ssRet, ssHealthz>>
    /\ UNCHANGED <<ssValidator, ssHasSigner, ssBody, ssRequests, ssMetadata,
                   ssStatus>>

\* healthzResponse.json() ends: it throws or gives the body
StatusHealthzJson(thrown, body) ==
    LET afterTry ==
            IF thrown THEN [ssRet EXCEPT !.state = "UnreachableHealthz"]
            ELSE IF ~ssHealthzOk
            THEN IF body.error # NullError
                 THEN [ssRet EXCEPT !.state = "Unhealthy",
                                    !.error = body.error]
                 ELSE [ssRet EXCEPT !.state = "Unhealthy"]
            ELSE ssRet
    IN  /\ ssPc = "healthzJson"
        /\ ssRet' = FullNodeCheck(afterTry, ssBody)
        /\ ssHealthz' = IF thrown THEN "json threw"
                        ELSE IF body.error # NullError THEN "body with error"
                        ELSE "body"
        /\ ssPc' = "returned"
        /\ UNCHANGED <<ssValidator, ssHasSigner, ssBody, ssHealthzOk,
                       ssRequests, ssMetadata, ssStatus>>

StatusIdle ==
    /\ ssPc = "idle"
    /\ ssValidator = ""
    /\ ssHasSigner = FALSE
    /\ ssRet = NoRet
    /\ ssBody = NoBody
    /\ ssHealthzOk = FALSE
    /\ ssRequests = {}
    /\ ssMetadata = NoOutcome
    /\ ssStatus = "none"
    /\ ssHealthz = "none"

StatusStart == StatusIdle

StatusQuiet == StatusIdle

NextStatus ==
    \/ \E validator \in Validators :
           StatusCall(validator) /\ UNCHANGED outsideStatus
    \/ StatusGetAccounts /\ UNCHANGED outsideStatus
    \/ StatusChainReadRejects /\ UNCHANGED outsideStatus
    \/ \E answer \in BOOLEAN :
           StatusHasAuthorizedAttestationSigner(answer)
           /\ UNCHANGED outsideStatus
    \/ \E signer \in Addresses :
           StatusGetAttestationSigner(signer) /\ UNCHANGED outsideStatus
    \/ \E metadataURL \in MetadataURLs :
           StatusGetMetadataURL(metadataURL) /\ UNCHANGED outsideStatus
    \/ \E outcome \in MetadataOutcomes :
           StatusFetchFromURL(outcome) /\ UNCHANGED outsideStatus
    \/ \E outcome \in {"throws", "non2xx", "2xx"} :
           StatusFetchStatus(outcome) /\ UNCHANGED outsideStatus
    \/ \E thrown \in BOOLEAN, body \in StatusBodies :
           StatusJson(thrown, body) /\ UNCHANGED outsideStatus
    \/ \E outcome \in {"throws", "non2xx", "2xx"} :
           StatusFetchHealthz(outcome) /\ UNCHANGED outsideStatus
    \/ \E thrown \in BOOLEAN, body \in HealthzBodies :
           StatusHealthzJson(thrown, body) /\ UNCHANGED outsideStatus

(***************************************************************************)
(* Operations that yield a transaction: request, selectIssuers,            *)
(* approveAttestationFee, and withdraw and approveTransfer, which          *)
(* proxySend makes of the contract methods (selectIssuersAfterWait,        *)
(* complete and revoke are above).  Each returns a transaction object; the *)
(* object reaches the chain only when the caller sends it.                 *)
(***************************************************************************)
MaxRequested == 2
MaxFee == 1
MaxCalls == 2

\* the addresses the registry may hold for the StableToken contract
TokenAddresses == {"0xc1", "0xc2"}
\* this.address: the address of the Attestations contract
AttestationsAddress == "0xa77"

ErrRegistry == "Failed to get address for StableToken from the Registry"
ErrContract == "Failed to get the StableToken contract"
ErrCall == "call failed"

\* this.contract.methods.request(identifier, attestationsRequested,
\* tokenAddress)
RequestTxMutNoToken(identifier, attestationsRequested, tokenAddress) ==
    [method |-> "request", identifier |-> identifier,
     attestationsRequested |-> attestationsRequested,
     tokenAddress |-> NULL_ADDRESS]
RequestTx(identifier, attestationsRequested, tokenAddress) ==
    [method |-> "request", identifier |-> identifier,
     attestationsRequested |-> attestationsRequested,
     tokenAddress |-> tokenAddress]

\* tokenContract.approve(this.address, fee.toFixed())
ApproveTx(spender, value) ==
    [method |-> "approve", spender |-> spender, value |-> value]

\* new BigNumber(attestationFee).times(attestationsRequested), .toFixed()
FeeRequired(attestationFee, attestationsRequested) ==
    Decimal[ValueToInt(attestationFee) * attestationsRequested]

\* the transactions a method of the wrapper sends by itself when it
\* returns the object tx: none (toTransactionObject only wraps the
\* contract method, nothing calls send on the object)
SentByWrapperMutSend(tx) == {tx}
SentByWrapper(tx) == {}

\* the transaction objects handed to the caller so far
ReturnedTx == rqTx \cup txBuilt \cup opTx \cup rvTx

\* a call may start when the previous one is over
RequestFree ==
    /\ rqPc \in {"idle", "returned", "threw"}
    /\ rqCalls < MaxCalls

\* request(identifier, attestationsRequested), up to the await of
\* registry.addressFor
RequestCall(identifier, attestationsRequested) ==
    /\ RequestFree
    /\ rqPc' = "addressFor"
    /\ rqMethod' = "request"
    /\ rqArgs' = [identifier |-> identifier,
                  attestationsRequested |-> attestationsRequested]
    /\ rqError' = NoError
    /\ rqLast' = {}
    /\ rqCalls' = rqCalls + 1
    /\ rqLookup' = "none"
    /\ UNCHANGED <<chainStableToken, chainRequestFee, chainSent, rqToken,
                   rqFee, rqTx>>

\* the registry answers the address it holds, or the lookup fails and the
\* error leaves request
RequestAddressFor(fails) ==
    /\ rqPc = "addressFor"
    /\ rqMethod = "request"
    /\ IF fails
       THEN /\ rqPc' = "threw"
            /\ rqError' = ErrRegistry
            /\ rqLookup' = "failed"
            /\ UNCHANGED <<rqToken, rqTx, rqLast, chainSent>>
       ELSE LET tokenAddress == chainStableToken
                tx == RequestTx(rqArgs.identifier,
                                rqArgs.attestationsRequested, tokenAddress)
            IN  /\ rqPc' = "returned"
                /\ rqError' = NoError
                /\ rqLookup' = "answered"
                /\ rqToken' = tokenAddress
                /\ rqTx' = rqTx \cup {tx}
                /\ rqLast' = {tx}
                /\ chainSent' = chainSent \cup SentByWrapper(tx)
    /\ UNCHANGED <<chainStableToken, chainRequestFee, rqMethod, rqArgs,
                   rqFee, rqCalls>>

\* selectIssuers(identifier): synchronous
SelectIssuersCall(identifier) ==
    LET tx == SelectIssuers(identifier)
    IN  /\ RequestFree
        /\ rqPc' = "returned"
        /\ rqMethod' = "selectIssuers"
        /\ rqArgs' = [identifier |-> identifier,
                      attestationsRequested |-> 0]
        /\ rqError' = NoError
        /\ rqTx' = rqTx \cup {tx}
        /\ rqLast' = {tx}
        /\ rqCalls' = rqCalls + 1
        /\ rqLookup' = "none"
        /\ chainSent' = chainSent \cup SentByWrapper(tx)
        /\ UNCHANGED <<chainStableToken, chainRequestFee, rqToken, rqFee>>

\* a method made by proxySend, called with args: synchronous, the
\* transaction object of the contract method is handed to the caller
ProxySendCall(method, tx) ==
    /\ RequestFree
    /\ rqPc' = "returned"
    /\ rqMethod' = method
    /\ rqArgs' = [identifier |-> "", attestationsRequested |-> 0]
    /\ rqError' = NoError
    /\ rqTx' = rqTx \cup {tx}
    /\ rqLast' = {tx}
    /\ rqCalls' = rqCalls + 1
    /\ rqLookup' = "none"
    /\ chainSent' = chainSent \cup SentByWrapper(tx)
    /\ UNCHANGED <<chainStableToken, chainRequestFee, rqToken, rqFee>>

\* withdraw = proxySend(this.kit, this.contract.methods.withdraw)
WithdrawTx(address) == [method |-> "withdraw", address |-> address]
Withdraw(address) == ProxySendCall("withdraw", WithdrawTx(address))

\* approveTransfer =
\*     proxySend(this.kit, this.contract.methods.approveTransfer)
ApproveTransferTx(identifier, index, from, to, status) ==
    [method |-> "approveTransfer", identifier |-> identifier,
     index |-> index, from |-> from, to |-> to, status |-> status]
ApproveTransfer(identifier, index, from, to, status) ==
    ProxySendCall("approveTransfer",
                  ApproveTransferTx(identifier, index, from, to, status))

\* approveAttestationFee(attestationsRequested), up to the await of
\* kit.contracts.getContract
ApproveCall(attestationsRequested) ==
    /\ RequestFree
    /\ rqPc' = "getContract"
    /\ rqMethod' = "approveAttestationFee"
    /\ rqArgs' = [identifier |-> "",
                  attestationsRequested |-> attestationsRequested]
    /\ rqError' = NoError
    /\ rqLast' = {}
    /\ rqCalls' = rqCalls + 1
    /\ rqLookup' = "none"
    /\ UNCHANGED <<chainStableToken, chainRequestFee, chainSent, rqToken,
                   rqFee, rqTx>>

\* getContract resolves; getAttestationFeeRequired starts with the await
\* of registry.addressFor
ApproveGetContract(fails) ==
    /\ rqPc = "getContract"
    /\ IF fails
       THEN rqPc' = "threw" /\ rqError' = ErrContract
       ELSE rqPc' = "addressFor" /\ rqError' = NoError
    /\ UNCHANGED <<chainStableToken, chainRequestFee, chainSent, rqMethod,
                   rqArgs, rqToken, rqFee, rqTx, rqLast, rqCalls, rqLookup>>

\* the registry answers; getAttestationRequestFee(tokenAddress).call()
ApproveAddressFor(fails) ==
    /\ rqPc = "addressFor"
    /\ rqMethod = "approveAttestationFee"
    /\ IF fails
       THEN rqPc' = "threw" /\ rqError' = ErrRegistry
                            /\ rqLookup' = "failed"
       ELSE rqPc' = "getAttestationRequestFee" /\ rqError' = NoError
                                               /\ rqLookup' = "answered"
    /\ UNCHANGED <<chainStableToken, chainRequestFee, chainSent, rqMethod,
                   rqArgs, rqToken, rqFee, rqTx, rqLast, rqCalls>>

\* the fee is read; return tokenContract.approve(this.address, fee)
ApproveGetAttestationRequestFee(fails) ==
    /\ rqPc = "getAttestationRequestFee"
    /\ IF fails
       THEN /\ rqPc' = "threw"
            /\ rqError' = ErrCall
            /\ UNCHANGED <<rqFee, rqTx, rqLast, chainSent>>
       ELSE LET fee == FeeRequired(chainRequestFee[chainStableToken],
                                   rqArgs.attestationsRequested)
                tx == ApproveTx(AttestationsAddress, fee)
            IN  /\ rqPc' = "returned"
                /\ rqError' = NoError
                /\ rqFee' = fee
                /\ rqTx' = rqTx \cup {tx}
                /\ rqLast' = {tx}
                /\ chainSent' = chainSent \cup SentByWrapper(tx)
    /\ UNCHANGED <<chainStableToken, chainRequestFee, rqMethod, rqArgs,
                   rqToken, rqCalls, rqLookup>>

\* the caller sends a transaction object it was handed
Send(tx) ==
    /\ tx \in ReturnedTx
    /\ tx \notin chainSent
    /\ chainSent' = chainSent \cup {tx}
    /\ UNCHANGED <<chainStableToken, chainRequestFee, rqPc, rqMethod, rqArgs,
                   rqToken, rqFee, rqError, rqTx, rqLast, rqCalls, rqLookup>>

RequestIdle ==
    /\ chainSent = {}
    /\ rqPc = "idle"
    /\ rqMethod = "none"
    /\ rqArgs = [identifier |-> "", attestationsRequested |-> 0]
    /\ rqToken = NoAddress
    /\ rqFee = "0"
    /\ rqError = NoError
    /\ rqTx = {}
    /\ rqLast = {}
    /\ rqCalls = 0
    /\ rqLookup = "none"

RequestStart ==
    /\ chainStableToken \in TokenAddresses
    /\ chainRequestFee \in [TokenAddresses -> {Decimal[f] : f \in 0..MaxFee}]
    /\ RequestIdle

RequestQuiet ==
    /\ chainStableToken = "0xc1"
    /\ chainRequestFee = [t \in TokenAddresses |-> "0"]
    /\ RequestIdle

\* a caller starts one of the methods
RequestCalls ==
    \/ \E identifier \in Identifiers, n \in 1..MaxRequested :
           RequestCall(identifier, n) /\ UNCHANGED outsideRequest
    \/ \E identifier \in Identifiers :
           SelectIssuersCall(identifier) /\ UNCHANGED outsideRequest
    \/ \E n \in 1..MaxRequested :
           ApproveCall(n) /\ UNCHANGED outsideRequest
    \/ \E address \in TokenAddresses :
           Withdraw(address) /\ UNCHANGED outsideRequest
    \/ \E identifier \in Identifiers, status \in BOOLEAN :
           ApproveTransfer(identifier, 0, "0xaa", "0xbb", status)
           /\ UNCHANGED outsideRequest

\* an await of a running call completes
RequestSteps ==
    \/ \E fails \in BOOLEAN :
           RequestAddressFor(fails) /\ UNCHANGED outsideRequest
    \/ \E fails \in BOOLEAN :
           ApproveGetContract(fails) /\ UNCHANGED outsideRequest
    \/ \E fails \in BOOLEAN :
           ApproveAddressFor(fails) /\ UNCHANGED outsideRequest
    \/ \E fails \in BOOLEAN :
           ApproveGetAttestationRequestFee(fails) /\ UNCHANGED outsideRequest

SendStep == \E tx \in ReturnedTx : Send(tx) /\ UNCHANGED outsideRequest

NextRequest == RequestCalls \/ RequestSteps \/ SendStep

(***************************************************************************)
(* The operations that yield a transaction, called one after the other by  *)
(* one caller, who may send the objects it was handed.                     *)
(***************************************************************************)
\* no call of the wrapper is running
CallsOver ==
    /\ opPc \in {"idle", "over"}
    /\ rvPc \in {"idle", "returned", "threw"}
    /\ rqPc \in {"idle", "returned", "threw"}
    /\ wPc \in {"idle", "returned", "threw"}
    /\ saPc \in {"idle", "returned", "threw"}

TransactionsStart ==
    /\ chainStableToken = "0xc1"
    /\ chainRequestFee = [t \in TokenAddresses |-> "1"]
    /\ RequestIdle
    /\ now = 0
    /\ chainUnselected = [id \in Identifiers |-> IF id = "id1" THEN 1 ELSE 0]
    /\ chainWaitBlocks = 1
    /\ chainHeight = 1
    /\ WaitIdle
    /\ CodeQuiet
    /\ chainAccounts = [id \in Identifiers |->
                           IF id = "id1" THEN <<"0xaa">> ELSE <<>>]
    /\ RevokeIdle

\* a code of the attestation signer of "0xaa" over ("id1", "0xaa")
GoodCode ==
    [wellFormed |-> TRUE, signer |-> "0xaa",
     message |-> GetAttestationMessageToSign("id1", "0xaa")]

\* the clock and the chain move while the wait is running
WaitRunning == wPc \notin {"idle", "returned", "threw"}

\* none of request, selectIssuers, approveAttestationFee, withdraw,
\* approveTransfer was called: like the three operations above, each
\* behaviour calls one of them once
NoneCalled == rqMethod = "none"

NextTransactions ==
    \/ /\ CallsOver /\ NoneCalled
       /\ RequestCall("id1", 1)
       /\ UNCHANGED outsideRequest
    \/ /\ CallsOver /\ NoneCalled
       /\ SelectIssuersCall("id1")
       /\ UNCHANGED outsideRequest
    \/ /\ CallsOver /\ NoneCalled
       /\ ApproveCall(1)
       /\ UNCHANGED outsideRequest
    \/ /\ CallsOver /\ NoneCalled
       /\ Withdraw("0xc1")
       /\ UNCHANGED outsideRequest
    \/ /\ CallsOver /\ NoneCalled
       /\ ApproveTransfer("id1", 0, "0xaa", "0xbb", TRUE)
       /\ UNCHANGED outsideRequest
    \/ RequestSteps
    \/ SendStep
    \/ /\ CallsOver
       /\ WaitCall("id1", 1, 1, "selectIssuersAfterWait")
       /\ UNCHANGED outsideWait
    \/ WaitStep
    \/ WaitRunning /\ Tick
    \/ WaitRunning /\ NewBlock
    \/ /\ CallsOver
       /\ \E code \in {GoodCode, MalformedCode} :
              Complete("id1", "0xaa", "0xaa", code)
       /\ UNCHANGED outsideCode
    \/ GetAccountsAnswers /\ UNCHANGED outsideCode
    \/ SignerAnswers /\ UNCHANGED outsideCode
    \/ ChainReadRejects /\ UNCHANGED outsideCode
    \/ /\ CallsOver
       /\ \E account \in {"0xAA", "0xcc"} : Revoke("id1", account)
       /\ UNCHANGED outsideRevoke
    \/ RevokeListAnswers /\ UNCHANGED outsideRevoke
    \/ RevokeListRejects /\ UNCHANGED outsideRevoke

(***************************************************************************)
(* Packed string arrays.  The contracts answer a list of strings as one    *)
(* length per string and the strings concatenated                          *)
(* (Accounts.batchGetMetadataURL, Attestations.getCompletableAttestations);*)
(* parseSolidityStringArray cuts the strings out again.                    *)
(***************************************************************************)
MaxStrings == 3
MaxStringLen == 2

Chars == {"a", "b"}
\* the strings an account may have registered, the empty one included
Strings == SeqsUpTo(Chars, MaxStringLen)

\* Accounts.batchGetMetadataURL(accounts): the lengths and the
\* concatenation of the strings, in the order of the accounts
BatchGetMetadataURL(strings) ==
    <<[i \in 1..Len(strings) |-> Decimal[Len(strings[i])]],
      Flatten(strings)>>

\* the completable attestations whose metadata URLs are the strings
EntriesOf(strings) ==
    [i \in 1..Len(strings) |->
        [blockNumber |-> i, issuer |-> IssuerPool[i],
         metadataURL |-> strings[i]]]

\* const [stringLengths, data] = await batchGetMetadataURL(accounts)
DecodeCallBatch ==
    /\ dcPc = "idle"
    /\ dcPc' = "answered"
    /\ dcResponse' = BatchGetMetadataURL(dcStrings)
    /\ UNCHANGED <<dcStrings, dcDecoded, dcParsed>>

\* parseSolidityStringArray(stringLengths.map((x) => x.toNumber()), data)
DecodeParse ==
    /\ dcPc = "answered"
    /\ dcPc' = "decoded"
    /\ dcDecoded' = ParseSolidityStringArray(ValuesToInt(dcResponse[1]),
                                             dcResponse[2])
    /\ UNCHANGED <<dcStrings, dcResponse, dcParsed>>

\* parseGetCompletableAttestations(await getCompletableAttestations(...))
DecodeCompletable ==
    /\ dcPc = "idle"
    /\ dcPc' = "parsed"
    /\ dcParsed' = ParseGetCompletableAttestations(
                       GetCompletableAttestations(EntriesOf(dcStrings)))
    /\ UNCHANGED <<dcStrings, dcResponse, dcDecoded>>

DecodeIdle ==
    /\ dcPc = "idle"
    /\ dcResponse = <<<<>>, <<>>>>
    /\ dcDecoded = <<>>
    /\ dcParsed = <<>>

DecodeStart ==
    /\ dcStrings \in SeqsUpTo(Strings, MaxStrings)
    /\ DecodeIdle

DecodeQuiet ==
    /\ dcStrings = <<>>
    /\ DecodeIdle

NextDecode ==
    \/ DecodeCallBatch /\ UNCHANGED outsideDecode
    \/ DecodeParse /\ UNCHANGED outsideDecode
    \/ DecodeCompletable /\ UNCHANGED outsideDecode

(***************************************************************************)
(* The Accounts contract, as its tests call it                             *)
(* (src/packages/protocol/test/common/accounts.ts).  An address creates    *)
(* an account; an account authorizes signers for roles, in one step with   *)
(* a signature of the signer or in two steps; the functions of the vote    *)
(* signer are the functions of the roles applied to the vote role.  A      *)
(* call that reverts leaves the contract as it was.                        *)
(***************************************************************************)
\* accounts[0], accounts[1], accounts[2] of the tests
Holders == {"acc0", "acc1", "acc2"}

VotingKey == "celo.org/core/vote"
TestRole == "Test Role"
Roles == {VotingKey, TestRole}

Reverted == "revert"

\* getParsedSignatureOfAddress(web3, account, signer): the signature of
\* signer over the address of account
GetParsedSignatureOfAddress(account, signer) ==
    [by |-> signer, over |-> account]
Signatures == {GetParsedSignatureOfAddress(a, s) : a \in Holders,
                                                   s \in Holders}
\* the arguments '0x0', '0x0', '0x0': no signature
NoSignature == [by |-> NULL_ADDRESS, over |-> NULL_ADDRESS]

\* the signature sig shows that signer agrees to act for account
SignedByFor(sig, signer, account) == sig.by = signer /\ sig.over = account

\* ---- views ----
IsAccount(a) == a \in acAccounts

AuthorizedBy(signer) == acAuthorizedBy[signer]

IsAuthorizedSigner(signer) == acAuthorizedBy[signer] # NULL_ADDRESS

IsSigner(account, signer, role) == <<account, role, signer>> \in acCompleted

HasAuthorizedSigner(account, role) == acSigner[account][role] # NULL_ADDRESS

\* getSigner(account, role) / getVoteSigner(account): the signer of the
\* role, the account itself when it authorized none
GetSignerMutNoDefault(account, role) ==
    IF ~IsAccount(account) THEN Reverted ELSE acSigner[account][role]
GetSigner(account, role) ==
    IF ~IsAccount(account) THEN Reverted
    ELSE IF HasAuthorizedSigner(account, role) THEN acSigner[account][role]
         ELSE account

\* signerToAccount(signer) / voteSignerToAccount(signer)
SignerToAccount(signer) ==
    IF IsAuthorizedSigner(signer) THEN AuthorizedBy(signer)
    ELSE IF IsAccount(signer) THEN signer
         ELSE Reverted

\* ---- preconditions of an authorization ----
\* the signer may act for account: it is no account, and no other account
\* authorized it
MayAuthorizeMutAnyOwner(account, signer) == ~IsAccount(signer)
MayAuthorize(account, signer) ==
    /\ ~IsAccount(signer)
    /\ AuthorizedBy(signer) \in {NULL_ADDRESS, account}

\* the signer may take the second of the two steps for account: the
\* precondition of an authorization, tested again when the signer
\* completes it
MayCompleteMutAnyOwner(account, signer) == ~IsAccount(signer)
MayComplete(account, signer) == MayAuthorize(account, signer)

\* ---- calls ----
NoCall == [fn |-> "none", sender |-> "", address |-> "", role |-> "",
           sig |-> NoSignature, outcome |-> "none"]

Called(fn, sender, address, role, sig, ok) ==
    [fn |-> fn, sender |-> sender, address |-> address, role |-> role,
     sig |-> sig, outcome |-> IF ok THEN "ok" ELSE Reverted]

\* resp.logs: the events of a call, none when it reverts; the events of
\* authorizeSigner, completeSignerAuthorization and the removals are not
\* part of the model
Log(event, account, arg) == [event |-> event, account |-> account, arg |-> arg]
Emitted(ok, logs) == IF ok THEN logs ELSE <<>>

\* the event of the creation of an account names the account
CreatedLogsMutNone(account) == <<>>
CreatedLogs(account) == <<Log("AccountCreated", account, "")>>

\* the signer's authorization for the role is complete: it is the role's
\* signer of the account from now on
CompletedMutKeepsSigner(account, signer, role) ==
    /\ acAuthorizedBy' = [acAuthorizedBy EXCEPT ![signer] = account]
    /\ acCompleted' = acCompleted \cup {<<account, role, signer>>}
    /\ acSigner' = IF HasAuthorizedSigner(account, role) THEN acSigner
                   ELSE [acSigner EXCEPT ![account][role] = signer]
Completed(account, signer, role) ==
    /\ acAuthorizedBy' = [acAuthorizedBy EXCEPT ![signer] = account]
    /\ acCompleted' = acCompleted \cup {<<account, role, signer>>}
    /\ acSigner' = [acSigner EXCEPT ![account][role] = signer]

\* createAccount(), from sender
CreateAccount(sender) ==
    LET ok == ~IsAccount(sender) /\ ~IsAuthorizedSigner(sender)
    IN  /\ acCall' = Called("createAccount", sender, "", "", NoSignature, ok)
        /\ acLogs' = Emitted(ok, CreatedLogs(sender))
        /\ acAccounts' = IF ok THEN acAccounts \cup {sender} ELSE acAccounts
        /\ UNCHANGED <<acSigner, acStarted, acCompleted, acAuthorizedBy,
                       acProfile>>

\* the completed authorizations after the first of the two steps: the
\* step completes none
AfterFirstStepMutCompletes(account, role, signer) ==
    acCompleted \cup {<<account, role, signer>>}
AfterFirstStep(account, role, signer) == acCompleted

\* authorizeSigner(signer, role), from the account: the first of two steps
AuthorizeSigner(sender, signer, role) ==
    LET ok == IsAccount(sender) /\ MayAuthorize(sender, signer)
    IN  /\ acCall' = Called("authorizeSigner", sender, signer, role,
                            NoSignature, ok)
        /\ acLogs' = <<>>
        /\ acStarted' = IF ok THEN acStarted \cup {<<sender, role, signer>>}
                        ELSE acStarted
        /\ acCompleted' = IF ok THEN AfterFirstStep(sender, role, signer)
                          ELSE acCompleted
        /\ UNCHANGED <<acAccounts, acSigner, acAuthorizedBy, acProfile>>

\* the second step takes effect only after the first
Started(account, role, signer) == <<account, role, signer>> \in acStarted

\* completeSignerAuthorization(account, role), from the signer
CompleteSignerAuthorization(sender, account, role) ==
    LET ok == /\ IsAccount(account)
              /\ MayComplete(account, sender)
              /\ Started(account, role, sender)
    IN  /\ acCall' = Called("completeSignerAuthorization", sender, account,
                            role, NoSignature, ok)
        /\ acLogs' = <<>>
        /\ IF ok THEN Completed(account, sender, role)
           ELSE UNCHANGED <<acAuthorizedBy, acCompleted, acSigner>>
        /\ UNCHANGED <<acAccounts, acStarted, acProfile>>

\* authorizeSignerWithSignature(signer, role, v, r, s), from the account;
\* fn names the function called: authorizeVoteSigner(signer, v, r, s) is
\* this function with the vote role
AuthorizeSignerWithSignature(fn, sender, signer, role, sig) ==
    LET ok == /\ IsAccount(sender)
              /\ MayAuthorize(sender, signer)
              /\ SignedByFor(sig, signer, sender)
    IN  /\ acCall' = Called(fn, sender, signer, role, sig, ok)
        /\ acLogs' = Emitted(ok, <<Log(IF fn = "authorizeVoteSigner"
                                       THEN "VoteSignerAuthorized"
                                       ELSE "SignerAuthorized",
                                       sender, signer)>>)
        /\ IF ok THEN Completed(sender, signer, role)
           ELSE UNCHANGED <<acAuthorizedBy, acCompleted, acSigner>>
        /\ UNCHANGED <<acAccounts, acStarted, acProfile>>

\* what is left of the completed authorizations of account when the
\* signer of its role is removed
AfterRemovalMutKeeps(account, role) == acCompleted
AfterRemoval(account, role) ==
    acCompleted \ {<<account, role, acSigner[account][role]>>}

\* removeSigner(role), from the account; removeVoteSigner() is this
\* function with the vote role
RemoveSigner(fn, sender, role) ==
    /\ acCall' = Called(fn, sender, acSigner[sender][role], role,
                        NoSignature, TRUE)
    /\ acLogs' = <<>>
    /\ acCompleted' = AfterRemoval(sender, role)
    /\ acSigner' = [acSigner EXCEPT ![sender][role] = NULL_ADDRESS]
    /\ UNCHANGED <<acAccounts, acStarted, acAuthorizedBy, acProfile>>

\* ---- the data of an account ----
AccountName == "Account"
MetadataURL == "https://www.celo.org"
\* a data encryption key of 33 bytes, one of 65 bytes, and one that is
\* too short
DataEncryptionKey == "0x02f2f48e"
LongDataEncryptionKey == "0x04f2f48e02f2f48e"
ShortKey == "0x32132931293"
ValidKey(key) == key \in {DataEncryptionKey, LongDataEncryptionKey}

NoProfile == [name |-> "", dataEncryptionKey |-> "",
              walletAddress |-> NULL_ADDRESS, metadataURL |-> ""]

\* the callers of the functions that set the data of an account, and the
\* wallet addresses they set
ProfileCallers == {"acc0", "acc1"}
WalletAddresses == ProfileCallers \cup {NULL_ADDRESS}

\* only an account has a name, a wallet address and a metadata URL
MustBeAccountMutAnyone(sender) == TRUE
MustBeAccount(sender) == IsAccount(sender)

\* the wallet address is the sender's own, or none, or its holder signed
\* for the sender
WalletAllowed(sender, walletAddress, sig) ==
    \/ walletAddress = sender
    \/ walletAddress = NULL_ADDRESS
    \/ SignedByFor(sig, walletAddress, sender)

\* setName(name)
SetName(sender, name) ==
    LET ok == MustBeAccount(sender)
    IN  /\ acCall' = Called("setName", sender, "", "", NoSignature, ok)
        /\ acLogs' = Emitted(ok, <<Log("AccountNameSet", sender, name)>>)
        /\ acProfile' = IF ok THEN [acProfile EXCEPT ![sender].name = name]
                        ELSE acProfile
        /\ UNCHANGED <<acAccounts, acSigner, acStarted, acCompleted,
                       acAuthorizedBy>>

\* setMetadataURL(metadataURL)
SetMetadataURL(sender, metadataURL) ==
    LET ok == MustBeAccount(sender)
    IN  /\ acCall' = Called("setMetadataURL", sender, "", "", NoSignature, ok)
        /\ acLogs' = Emitted(ok, <<Log("AccountMetadataURLSet", sender,
                                       metadataURL)>>)
        /\ acProfile' =
               IF ok THEN [acProfile EXCEPT ![sender].metadataURL = metadataURL]
               ELSE acProfile
        /\ UNCHANGED <<acAccounts, acSigner, acStarted, acCompleted,
                       acAuthorizedBy>>

\* setWalletAddress(walletAddress, v, r, s)
SetWalletAddress(sender, walletAddress, sig) ==
    LET ok == MustBeAccount(sender) /\ WalletAllowed(sender, walletAddress, sig)
    IN  /\ acCall' = Called("setWalletAddress", sender, walletAddress, "",
                            sig, ok)
        /\ acLogs' = Emitted(ok, <<Log("AccountWalletAddressSet", sender,
                                       walletAddress)>>)
        /\ acProfile' =
               IF ok
               THEN [acProfile EXCEPT ![sender].walletAddress = walletAddress]
               ELSE acProfile
        /\ UNCHANGED <<acAccounts, acSigner, acStarted, acCompleted,
                       acAuthorizedBy>>

\* setAccountDataEncryptionKey(dataEncryptionKey): the sender need not be
\* an account
SetAccountDataEncryptionKey(sender, key) ==
    LET ok == ValidKey(key)
    IN  /\ acCall' = Called("setAccountDataEncryptionKey", sender, "", "",
                            NoSignature, ok)
        /\ acLogs' = Emitted(ok, <<Log("AccountDataEncryptionKeySet",
                                       sender, key)>>)
        /\ acProfile' =
               IF ok THEN [acProfile EXCEPT ![sender].dataEncryptionKey = key]
               ELSE acProfile
        /\ UNCHANGED <<acAccounts, acSigner, acStarted, acCompleted,
                       acAuthorizedBy>>

\* the accounts after setAccount from sender: the account is created when
\* there is none
CreatedBySetAccount(sender) == acAccounts \cup {sender}

\* setAccount(name, dataEncryptionKey, walletAddress, v, r, s)
SetAccount(sender, name, key, walletAddress, sig) ==
    LET ok == /\ IsAccount(sender) \/ ~IsAuthorizedSigner(sender)
              /\ ValidKey(key)
              /\ WalletAllowed(sender, walletAddress, sig)
    IN  /\ acCall' = Called("setAccount", sender, walletAddress, "", sig, ok)
        /\ acLogs' = Emitted(ok,
               (IF IsAccount(sender) THEN <<>> ELSE CreatedLogs(sender))
               \o <<Log("AccountNameSet", sender, name),
                    Log("AccountDataEncryptionKeySet", sender, key),
                    Log("AccountWalletAddressSet", sender,
                        walletAddress)>>)
        /\ acAccounts' = IF ok THEN CreatedBySetAccount(sender) ELSE acAccounts
        /\ acProfile' =
               IF ok
               THEN [acProfile EXCEPT
                        ![sender] = [name |-> name, dataEncryptionKey |-> key,
                                     walletAddress |-> walletAddress,
                                     metadataURL |-> @.metadataURL]]
               ELSE acProfile
        /\ UNCHANGED <<acSigner, acStarted, acCompleted, acAuthorizedBy>>

\* the contract after initialize: no account, no signer
AccountsStart ==
    /\ acAccounts = {}
    /\ acSigner = [a \in Holders |-> [r \in Roles |-> NULL_ADDRESS]]
    /\ acStarted = {}
    /\ acCompleted = {}
    /\ acAuthorizedBy = [a \in Holders |-> NULL_ADDRESS]
    /\ acProfile = [a \in Holders |-> NoProfile]
    /\ acCall = NoCall
    /\ acLogs = <<>>
    /\ acCalls = 0

AccountsQuiet == AccountsStart

\* one more call is made; nothing but the contract changes
MaxAccountCalls == 4
Counted ==
    /\ acCalls < MaxAccountCalls
    /\ acCalls' = acCalls + 1
    /\ UNCHANGED outsideAccounts

\* the functions that authorize and remove signers; a signature is the
\* signer's or, wrongly, the sender's own
NextSigners ==
    \/ \E sender \in Holders :
           CreateAccount(sender) /\ Counted
    \/ \E sender \in Holders, signer \in Holders, role \in Roles :
           AuthorizeSigner(sender, signer, role) /\ Counted
    \/ \E sender \in Holders, account \in Holders, role \in Roles :
           CompleteSignerAuthorization(sender, account, role) /\ Counted
    \/ \E sender \in Holders, signer \in Holders, role \in Roles :
         \E by \in {signer, sender} :
           AuthorizeSignerWithSignature("authorizeSignerWithSignature",
               sender, signer, role, GetParsedSignatureOfAddress(sender, by))
           /\ Counted
    \/ \E sender \in Holders, signer \in Holders :
         \E by \in {signer, sender} :
           AuthorizeSignerWithSignature("authorizeVoteSigner", sender,
               signer, VotingKey, GetParsedSignatureOfAddress(sender, by))
           /\ Counted
    \/ \E sender \in Holders, role \in Roles :
           RemoveSigner("removeSigner", sender, role) /\ Counted
    \/ \E sender \in Holders :
           RemoveSigner("removeVoteSigner", sender, VotingKey) /\ Counted

\* the authorizations alone, over longer sequences of calls: the two steps
\* and the generic signature for the test role, the vote signature for the
\* vote role, so that a signer one account authorized on one path is asked
\* for by a second account on the other path
MaxAuthorizeCalls == 6
CountedAuthorize ==
    /\ acCalls < MaxAuthorizeCalls
    /\ acCalls' = acCalls + 1
    /\ UNCHANGED outsideAccounts

NextAuthorize ==
    \/ \E sender \in Holders :
           CreateAccount(sender) /\ CountedAuthorize
    \/ \E sender \in Holders, signer \in Holders :
           AuthorizeSigner(sender, signer, TestRole) /\ CountedAuthorize
    \/ \E sender \in Holders, account \in Holders :
           CompleteSignerAuthorization(sender, account, TestRole)
           /\ CountedAuthorize
    \/ \E sender \in Holders, signer \in Holders :
         \E by \in {signer, sender} :
           AuthorizeSignerWithSignature("authorizeSignerWithSignature",
               sender, signer, TestRole,
               GetParsedSignatureOfAddress(sender, by))
           /\ CountedAuthorize
    \/ \E sender \in Holders, signer \in Holders :
         \E by \in {signer, sender} :
           AuthorizeSignerWithSignature("authorizeVoteSigner", sender,
               signer, VotingKey, GetParsedSignatureOfAddress(sender, by))
           /\ CountedAuthorize
    \/ \E sender \in Holders, role \in Roles :
           RemoveSigner("removeSigner", sender, role) /\ CountedAuthorize

\* the functions that create an account and set its data
NextProfile ==
    \/ \E sender \in ProfileCallers :
           CreateAccount(sender) /\ Counted
    \/ \E sender \in ProfileCallers :
           SetName(sender, AccountName) /\ Counted
    \/ \E sender \in ProfileCallers :
           SetMetadataURL(sender, MetadataURL) /\ Counted
    \/ \E sender \in ProfileCallers, walletAddress \in WalletAddresses,
          by \in ProfileCallers :
           SetWalletAddress(sender, walletAddress,
                            GetParsedSignatureOfAddress(sender, by))
           /\ Counted
    \/ \E sender \in ProfileCallers,
          key \in {DataEncryptionKey, LongDataEncryptionKey, ShortKey} :
           SetAccountDataEncryptionKey(sender, key) /\ Counted
    \/ \E sender \in ProfileCallers, key \in {DataEncryptionKey, ShortKey},
          walletAddress \in WalletAddresses, by \in ProfileCallers :
           SetAccount(sender, AccountName, key, walletAddress,
                      GetParsedSignatureOfAddress(sender, by))
           /\ Counted

(***************************************************************************)
(* The per-issuer probe and getAttestationServiceStatus on the same        *)
(* issuer: after a call of getAttestationServiceStatus returned, the       *)
(* probe of makeIsIssuerRunningAttestationService is applied to the same   *)
(* answers of the chain, the metadata host and the service.  What the      *)
(* call did not ask for, and the status field of the body, which it does   *)
(* not read, are the environment's choice.                                 *)
(***************************************************************************)
\* every answer of the network to each await of one probe
AllMetadataAnswers ==
    {[Healthy EXCEPT !.metadata = m, !.urlClaim = u, !.nameClaim = n] :
        m \in {"ok", "throws"}, u \in BOOLEAN, n \in BOOLEAN}
AllStatusAnswers ==
    {[Healthy EXCEPT !.fetch = f, !.ok = o] :
        f \in {"ok", "throws"}, o \in BOOLEAN}
AllBodyAnswers ==
    {[Healthy EXCEPT !.json = j, !.status = t, !.version = v] :
        j \in {"ok", "throws"}, t \in {"ok", "down"},
        v \in {ServiceVersion, "undefined"}}

NoAnswer == [Healthy EXCEPT !.metadata = "none"]

\* the probe's answers are the ones the call of
\* getAttestationServiceStatus received, where it received one: the
\* metadata, ...
SameMetadata(answer) ==
    /\ ssRet.metadataURL = "" => answer.metadata = "throws"
    /\ ssMetadata # NoOutcome =>
         /\ answer.metadata = (IF ssMetadata.kind = "ok" THEN "ok"
                               ELSE "throws")
         /\ ssMetadata.kind = "ok" => answer.urlClaim = ssMetadata.claim

\* ... the response of the status endpoint, ...
SameStatus(answer) ==
    ssStatus # "none" =>
        /\ answer.fetch = (IF ssStatus = "throws" THEN "throws" ELSE "ok")
        /\ ssStatus # "throws" => answer.ok = (ssStatus = "2xx")

\* ... and its body
SameBody(answer) ==
    ssStatus = "2xx" =>
        /\ answer.json = (IF ssBody = NoBody THEN "throws" ELSE "ok")
        /\ ssBody # NoBody => answer.version = ssBody.version

\* the entry of the issuer in the list of completable attestations
EntryOfValidator ==
    [blockNumber |-> 1, issuer |-> ssValidator,
     metadataURL |-> ssRet.metadataURL]

\* the probe is called on the issuer of the call that returned; it awaits
\* IdentityMetadataWrapper.fetchFromURL
CompareProbe ==
    /\ ssPc = "returned"
    /\ cmpPc = "idle"
    /\ cmpPc' = ProbeCalled.at
    /\ cmpAnswer' = ProbeCalled.got
    /\ UNCHANGED cmpResult

\* the probe resolves, got being the answers it received
CompareResolves(got) ==
    /\ cmpPc' = "probed"
    /\ cmpAnswer' = got
    /\ cmpResult' = IsIssuerRunningAttestationService(EntryOfValidator, got)

\* the probe goes on to its next await
CompareAwaits(at, got) ==
    /\ cmpPc' = at
    /\ cmpAnswer' = got
    /\ UNCHANGED cmpResult

\* fetchFromURL answers or rejects
CompareFetchFromURL(answer) ==
    LET got == MetadataPart(cmpAnswer, answer)
    IN  /\ cmpPc = "fetchFromURL"
        /\ SameMetadata(answer)
        /\ IF MetadataStops(answer) THEN CompareResolves(got)
           ELSE CompareAwaits("fetch", got)

\* fetch(.../status) answers or rejects
CompareFetch(answer) ==
    LET got == StatusPart(cmpAnswer, answer)
    IN  /\ cmpPc = "fetch"
        /\ SameStatus(answer)
        /\ IF StatusStops(answer) THEN CompareResolves(got)
           ELSE CompareAwaits("json", got)

\* resp.json() answers or rejects
CompareJson(answer) ==
    /\ cmpPc = "json"
    /\ SameBody(answer)
    /\ CompareResolves(BodyPart(cmpAnswer, answer))

CompareIdle ==
    /\ cmpPc = "idle"
    /\ cmpAnswer = NoAnswer
    /\ cmpResult = Unresolved

CompareStart == CompareIdle

CompareQuiet == CompareIdle

NextCompare ==
    \/ NextStatus
    \/ CompareProbe /\ UNCHANGED outsideCompare
    \/ \E answer \in AllMetadataAnswers :
           CompareFetchFromURL(answer) /\ UNCHANGED outsideCompare
    \/ \E answer \in AllStatusAnswers :
           CompareFetch(answer) /\ UNCHANGED outsideCompare
    \/ \E answer \in AllBodyAnswers :
           CompareJson(answer) /\ UNCHANGED outsideCompare

(***************************************************************************)
(* setFeeCurrency, updateGasPriceInConnectionLayer and fillGasPrice, one   *)
(* call at a time; each await is a position of the call, and the registry, *)
(* the wrapper cache, the GasPriceMinimum contract and the connection      *)
(* answer or reject.  The setter of defaultFeeCurrency awaits nothing and  *)
(* may be used at any time, also while a call is awaiting.                 *)
(***************************************************************************)
MaxRawGasPrice == 1

\* gasPriceSuggestionMultiplier = 5
gasPriceSuggestionMultiplier == 5

GoldToken == "GoldToken"
\* the token contracts setFeeCurrency is called with
CeloTokenContracts == {GoldToken, "StableToken", "StableTokenEUR"}

ErrWrapper == "Failed to get the GasPriceMinimum wrapper"
ErrSetGasPrice == "setGasPriceForCurrency failed"

\* BigNumber.toFixed() of a non-negative integer
RECURSIVE ToFixed(_)
ToFixed(n) ==
    IF n < 10 THEN Decimal[n] ELSE ToFixed(n \div 10) \o Decimal[n % 10]

\* rawGasPrice.multipliedBy(this.gasPriceSuggestionMultiplier).toFixed()
SuggestedGasPrice(rawGasPrice) ==
    ToFixed(rawGasPrice * gasPriceSuggestionMultiplier)

\* connection.setGasPriceForCurrency(currency, gasPrice)
UpdateGasPriceMutSkips(prices, currency, rawGasPrice) == prices
UpdateGasPrice(prices, currency, rawGasPrice) ==
    [prices EXCEPT ![currency] = SuggestedGasPrice(rawGasPrice)]

FeeCallOver == fcPc \in {"idle", "returned", "thrown"}

\* a call starts: its locals, and what the connection held before it
FeeCallStarts(method, tokenContract, address) ==
    /\ FeeCallOver
    /\ fcMethod' = method
    /\ fcToken' = tokenContract
    /\ fcBefore' = [currency |-> defaultFeeCurrency,
                    prices |-> currencyGasPrice]
    /\ fcAddress' = address
    /\ fcRaw' = 0
    /\ fcError' = NoError
    /\ UNCHANGED currencyGasPrice

\* setFeeCurrency(tokenContract), up to its first await; for GoldToken
\* nothing is awaited and the call runs to its end
SetFeeCurrency(tokenContract) ==
    /\ FeeCallStarts("setFeeCurrency", tokenContract, "undefined")
    /\ IF tokenContract = GoldToken
       THEN fcPc' = "returned" /\ defaultFeeCurrency' = "undefined"
       ELSE fcPc' = "addressFor" /\ UNCHANGED defaultFeeCurrency

\* updateGasPriceInConnectionLayer(currency), called by a user of the kit,
\* up to await this.contracts.getGasPriceMinimum()
UpdateGasPriceInConnectionLayer(currency) ==
    /\ FeeCallStarts("updateGasPriceInConnectionLayer", "none", currency)
    /\ fcPc' = "getGasPriceMinimum"
    /\ UNCHANGED defaultFeeCurrency

\* the transactions fillGasPrice is called with
FillTxs == [feeCurrency : TokenAddresses \cup {"undefined"},
            gasPrice : {"0", "1"}]

\* fillGasPrice(tx): the gas price of tx.feeCurrency is updated first when
\* tx.feeCurrency is set and tx.gasPrice is '0'; then
\* this.connection.fillGasPrice(tx)
FillGasPrice(tx) ==
    /\ FeeCallStarts("fillGasPrice", "none", tx.feeCurrency)
    /\ IF tx.feeCurrency # "undefined" /\ tx.gasPrice = "0"
       THEN fcPc' = "getGasPriceMinimum"
       ELSE fcPc' = "connection.fillGasPrice"
    /\ UNCHANGED defaultFeeCurrency

\* set defaultFeeCurrency(address): the setter of the kit, at any time
SetDefaultFeeCurrency(address) ==
    /\ defaultFeeCurrency' = address
    /\ UNCHANGED <<currencyGasPrice, fcPc, fcMethod, fcToken, fcAddress,
                   fcRaw, fcError, fcBefore>>

FeeRejects(error) ==
    /\ fcPc' = "thrown"
    /\ fcError' = error
    /\ UNCHANGED <<defaultFeeCurrency, fcMethod, fcToken, fcAddress, fcRaw,
                   fcBefore>>

\* this.registry.addressFor(tokenContract) answers; the address is not
\* empty and updateGasPriceInConnectionLayer starts
AddressForAnswers(address) ==
    /\ fcPc = "addressFor"
    /\ fcPc' = "getGasPriceMinimum"
    /\ fcAddress' = address
    /\ UNCHANGED <<defaultFeeCurrency, currencyGasPrice, fcMethod, fcToken,
                   fcRaw, fcError, fcBefore>>

AddressForRejects ==
    /\ fcPc = "addressFor"
    /\ FeeRejects(ErrRegistry)
    /\ UNCHANGED currencyGasPrice

\* this.contracts.getGasPriceMinimum() answers
WrapperAnswers ==
    /\ fcPc = "getGasPriceMinimum"
    /\ fcPc' = "minimum"
    /\ UNCHANGED <<defaultFeeCurrency, currencyGasPrice, fcMethod, fcToken,
                   fcAddress, fcRaw, fcError, fcBefore>>

WrapperRejects ==
    /\ fcPc = "getGasPriceMinimum"
    /\ FeeRejects(ErrWrapper)
    /\ UNCHANGED currencyGasPrice

\* gasPriceMinimum.getGasPriceMinimum(currency) answers; the gas price is
\* computed and setGasPriceForCurrency is called
MinimumAnswers(rawGasPrice) ==
    /\ fcPc = "minimum"
    /\ fcPc' = "setGasPriceForCurrency"
    /\ fcRaw' = rawGasPrice
    /\ UNCHANGED <<defaultFeeCurrency, currencyGasPrice, fcMethod, fcToken,
                   fcAddress, fcError, fcBefore>>

MinimumRejects ==
    /\ fcPc = "minimum"
    /\ FeeRejects(ErrCall)
    /\ UNCHANGED currencyGasPrice

\* setGasPriceForCurrency resolves and updateGasPriceInConnectionLayer
\* returns: to its caller outside the kit; to setFeeCurrency, which
\* assigns this.connection.defaultFeeCurrency = address and returns; to
\* fillGasPrice, which calls this.connection.fillGasPrice(tx)
GasPriceSet ==
    /\ fcPc = "setGasPriceForCurrency"
    /\ currencyGasPrice' = UpdateGasPrice(currencyGasPrice, fcAddress, fcRaw)
    /\ IF fcMethod = "setFeeCurrency"
       THEN fcPc' = "returned" /\ defaultFeeCurrency' = fcAddress
       ELSE IF fcMethod = "fillGasPrice"
       THEN fcPc' = "connection.fillGasPrice" /\ UNCHANGED defaultFeeCurrency
       ELSE fcPc' = "returned" /\ UNCHANGED defaultFeeCurrency
    /\ UNCHANGED <<fcMethod, fcToken, fcAddress, fcRaw, fcError, fcBefore>>

\* setGasPriceForCurrency rejects, with the gas price stored or not
GasPriceRejects ==
    /\ fcPc = "setGasPriceForCurrency"
    /\ FeeRejects(ErrSetGasPrice)
    /\ \/ UNCHANGED currencyGasPrice
       \/ currencyGasPrice' =
              UpdateGasPrice(currencyGasPrice, fcAddress, fcRaw)

ErrFillGasPrice == "connection.fillGasPrice failed"

\* this.connection.fillGasPrice(tx) resolves: fillGasPrice returns what it
\* resolved to
FillAnswers ==
    /\ fcPc = "connection.fillGasPrice"
    /\ fcPc' = "returned"
    /\ UNCHANGED <<defaultFeeCurrency, currencyGasPrice, fcMethod, fcToken,
                   fcAddress, fcRaw, fcError, fcBefore>>

FillRejects ==
    /\ fcPc = "connection.fillGasPrice"
    /\ FeeRejects(ErrFillGasPrice)
    /\ UNCHANGED currencyGasPrice

FeeIdle ==
    /\ defaultFeeCurrency = "undefined"
    /\ currencyGasPrice = [a \in TokenAddresses |-> "undefined"]
    /\ fcPc = "idle"
    /\ fcMethod = "none"
    /\ fcToken = "none"
    /\ fcAddress = "undefined"
    /\ fcRaw = 0
    /\ fcError = NoError
    /\ fcBefore = [currency |-> "undefined",
                   prices |-> [a \in TokenAddresses |-> "undefined"]]

FeeStart == FeeIdle

FeeQuiet == FeeIdle

NextFee ==
    \/ \E tokenContract \in CeloTokenContracts :
           SetFeeCurrency(tokenContract) /\ UNCHANGED outsideFee
    \/ \E currency \in TokenAddresses :
           UpdateGasPriceInConnectionLayer(currency) /\ UNCHANGED outsideFee
    \/ \E tx \in FillTxs : FillGasPrice(tx) /\ UNCHANGED outsideFee
    \/ \E address \in TokenAddresses \cup {"undefined"} :
           SetDefaultFeeCurrency(address) /\ UNCHANGED outsideFee
    \/ \E address \in TokenAddresses :
           AddressForAnswers(address) /\ UNCHANGED outsideFee
    \/ AddressForRejects /\ UNCHANGED outsideFee
    \/ WrapperAnswers /\ UNCHANGED outsideFee
    \/ WrapperRejects /\ UNCHANGED outsideFee
    \/ \E rawGasPrice \in 0..MaxRawGasPrice :
           MinimumAnswers(rawGasPrice) /\ UNCHANGED outsideFee
    \/ MinimumRejects /\ UNCHANGED outsideFee
    \/ GasPriceSet /\ UNCHANGED outsideFee
    \/ GasPriceRejects /\ UNCHANGED outsideFee
    \/ FillAnswers /\ UNCHANGED outsideFee
    \/ FillRejects /\ UNCHANGED outsideFee

(***************************************************************************)
(* getFirstBlockNumberForEpoch, getLastBlockNumberForEpoch and             *)
(* getEpochNumberOfBlock.  Each awaits getEpochSize;                       *)
(* getLastBlockNumberForEpoch then awaits getFirstBlockNumberForEpoch,     *)
(* which reads the epoch size again.  The epoch size of the chain is       *)
(* fixed.                                                                  *)
(***************************************************************************)
MaxEpochSize == 3
MaxEpoch == 3

EpochSizes == 1..MaxEpochSize
EpochNumbers == 0..(MaxEpoch + 1)
BlockNumbers == 0..(MaxEpochSize * MaxEpoch)

\* if (epochNumber === 0) return 0;
\* return (epochNumber - 1) * epochSize + 1
GetFirstBlockNumberForEpoch(epochSize, epochNumber) ==
    IF epochNumber = 0 THEN 0 ELSE (epochNumber - 1) * epochSize + 1

\* if (epochNumber === 0) return 0;
\* return firstBlockNumberForEpoch + (epochSize - 1)
GetLastBlockNumberForEpoch(epochSize, epochNumber) ==
    IF epochNumber = 0 THEN 0
    ELSE GetFirstBlockNumberForEpoch(epochSize, epochNumber)
         + (epochSize - 1)

\* Math.floor(blockNumber / epochSize), plus one unless
\* blockNumber % epochSize === 0
GetEpochNumberOfBlockMutFloor(epochSize, block) ==
    block \div epochSize
GetEpochNumberOfBlock(epochSize, block) ==
    LET epochNumber == block \div epochSize
    IN  IF block % epochSize = 0 THEN epochNumber
        ELSE epochNumber + 1

\* a method is called: it calls getEpochSize, which awaits
\* this.contracts.getValidators()
EpochCall(method, n) ==
    /\ epPc \in {"idle", "returned", "threw"}
    /\ epPc' = "getValidators"
    /\ epMethod' = method
    /\ epArg' = n
    /\ epSize' = 0
    /\ epResult' = 0
    /\ UNCHANGED chainEpochSize

\* contracts.getValidators() answers: getEpochSize awaits
\* validators.getEpochSize()
ValidatorsAnswer ==
    /\ epPc = "getValidators"
    /\ epPc' = "getEpochSize"
    /\ UNCHANGED <<chainEpochSize, epMethod, epArg, epSize, epResult>>

\* validators.getEpochSize() answers and getEpochSize returns;
\* getLastBlockNumberForEpoch of an epoch other than 0 goes on to call
\* getFirstBlockNumberForEpoch, which calls getEpochSize again
EpochSizeRead ==
    /\ epPc = "getEpochSize"
    /\ epSize' = chainEpochSize
    /\ IF epMethod = "getFirstBlockNumberForEpoch"
       THEN /\ epPc' = "returned"
            /\ epResult' = GetFirstBlockNumberForEpoch(epSize', epArg)
       ELSE IF epMethod = "getEpochNumberOfBlock"
       THEN /\ epPc' = "returned"
            /\ epResult' = GetEpochNumberOfBlock(epSize', epArg)
       ELSE IF epArg = 0
       THEN epPc' = "returned" /\ epResult' = 0
       ELSE /\ epPc' = "getFirstBlockNumberForEpoch.getValidators"
            /\ UNCHANGED epResult
    /\ UNCHANGED <<chainEpochSize, epMethod, epArg>>

\* contracts.getValidators() of the inner getFirstBlockNumberForEpoch
\* answers
FirstBlockValidatorsAnswer ==
    /\ epPc = "getFirstBlockNumberForEpoch.getValidators"
    /\ epPc' = "getFirstBlockNumberForEpoch.getEpochSize"
    /\ UNCHANGED <<chainEpochSize, epMethod, epArg, epSize, epResult>>

\* validators.getEpochSize() of the inner getFirstBlockNumberForEpoch
\* answers: it returns and getLastBlockNumberForEpoch returns
\* firstBlockNumberForEpoch + (epochSize - 1)
FirstBlockRead ==
    /\ epPc = "getFirstBlockNumberForEpoch.getEpochSize"
    /\ epPc' = "returned"
    /\ epResult' = GetFirstBlockNumberForEpoch(chainEpochSize, epArg)
                   + (epSize - 1)
    /\ UNCHANGED <<chainEpochSize, epMethod, epArg, epSize>>

\* the awaits of the three methods
EpochReads ==
    {"getValidators", "getEpochSize",
     "getFirstBlockNumberForEpoch.getValidators",
     "getFirstBlockNumberForEpoch.getEpochSize"}

\* a read rejects: no await is inside a try, the call rejects
EpochReadRejects ==
    /\ epPc \in EpochReads
    /\ epPc' = "threw"
    /\ UNCHANGED <<chainEpochSize, epMethod, epArg, epSize, epResult>>

EpochIdle ==
    /\ epPc = "idle"
    /\ epMethod = "none"
    /\ epArg = 0
    /\ epSize = 0
    /\ epResult = 0

EpochStart == chainEpochSize \in EpochSizes /\ EpochIdle

EpochQuiet == chainEpochSize = 1 /\ EpochIdle

NextEpoch ==
    \/ \E n \in EpochNumbers :
         \E method \in {"getFirstBlockNumberForEpoch",
                        "getLastBlockNumberForEpoch"} :
           EpochCall(method, n) /\ UNCHANGED outsideEpoch
    \/ \E n \in BlockNumbers :
           EpochCall("getEpochNumberOfBlock", n) /\ UNCHANGED outsideEpoch
    \/ ValidatorsAnswer /\ UNCHANGED outsideEpoch
    \/ EpochSizeRead /\ UNCHANGED outsideEpoch
    \/ FirstBlockValidatorsAnswer /\ UNCHANGED outsideEpoch
    \/ FirstBlockRead /\ UNCHANGED outsideEpoch
    \/ EpochReadRejects /\ UNCHANGED outsideEpoch

(***************************************************************************)
(* getNetworkConfig.  The addresses of the tokens are awaited, then the    *)
(* wrappers of the list promises with Promise.all, which resolves when     *)
(* every wrapper resolved and rejects with the first rejection; then the   *)
(* list of configuration requests is built element by element from         *)
(* contracts[0] .. contracts[11].                                          *)
(***************************************************************************)
\* const promises = [this.contracts.getElection(), ...]
Wrappers ==
    <<"Election", "Attestations", "Governance", "LockedGold",
      "SortedOracles", "GasPriceMinimum", "Reserve", "Validators",
      "DowntimeSlasher", "BlockchainParameters", "GrandaMento">>

\* this.celoTokens.getExchangesConfigs(), this.celoTokens.getStablesConfigs()
TokenConfigs == <<"exchanges", "stableTokens">>

\* the indexes of contracts[i].getConfig(...) in the second Promise.all
ConfigIndexes == <<0, 1, 2, 3, 4, 5, 6, 7, 8, 9, 10, 11>>

\* the field of the result that receives res[i], in the order of i
ResultFields ==
    <<"exchanges", "stableTokens", "election", "attestations", "governance",
      "lockedGold", "sortedOracles", "gasPriceMinimum", "reserve",
      "validators", "downtimeSlasher", "blockchainParameters",
      "grandaMento">>

ErrAddresses == "getAddresses failed"
ErrNoWrapper(i) == "Failed to get the wrapper of " \o Wrappers[i]
\* contracts[i] is undefined for an index past the end of the list
ErrUndefined ==
    "TypeError: Cannot read properties of undefined (reading 'getConfig')"

\* the elements of the list of configuration requests are evaluated in
\* order, from the k-th index on; an index outside contracts throws
RECURSIVE StartConfigs(_, _, _)
StartConfigs(contracts, k, started) ==
    IF k > Len(ConfigIndexes) THEN [started |-> started, error |-> NoError]
    ELSE IF ConfigIndexes[k] + 1 > Len(contracts)
    THEN [started |-> started, error |-> ErrUndefined]
    ELSE StartConfigs(contracts, k + 1,
                      Append(started, contracts[ConfigIndexes[k] + 1]))

\* getNetworkConfig(), up to await this.celoTokens.getAddresses()
GetNetworkConfig ==
    /\ cfgPc = "idle"
    /\ cfgPc' = "getAddresses"
    /\ UNCHANGED <<cfgAddresses, cfgResolved, cfgStarted, cfgError>>

\* the addresses are answered; the wrappers are requested
AddressesAnswer(addresses) ==
    /\ cfgPc = "getAddresses"
    /\ cfgPc' = "wrappers"
    /\ cfgAddresses' = addresses
    /\ UNCHANGED <<cfgResolved, cfgStarted, cfgError>>

AddressesReject ==
    /\ cfgPc = "getAddresses"
    /\ cfgPc' = "thrown"
    /\ cfgError' = ErrAddresses
    /\ UNCHANGED <<cfgAddresses, cfgResolved, cfgStarted>>

\* one wrapper resolves; with the last one Promise.all resolves and the
\* configuration requests are started
WrapperResolves(i) ==
    /\ cfgPc = "wrappers"
    /\ i \notin cfgResolved
    /\ cfgResolved' = cfgResolved \cup {i}
    /\ IF cfgResolved' # DOMAIN Wrappers
       THEN UNCHANGED <<cfgPc, cfgStarted, cfgError>>
       ELSE LET started == StartConfigs(Wrappers, 1, TokenConfigs)
            IN  /\ cfgStarted' = started.started
                /\ cfgError' = started.error
                /\ cfgPc' = IF started.error = NoError THEN "configs"
                            ELSE "thrown"
    /\ UNCHANGED cfgAddresses

\* one wrapper rejects and Promise.all rejects with its error
WrapperFails(i) ==
    /\ cfgPc = "wrappers"
    /\ i \notin cfgResolved
    /\ cfgPc' = "thrown"
    /\ cfgError' = ErrNoWrapper(i)
    /\ UNCHANGED <<cfgAddresses, cfgResolved, cfgStarted>>

NoAddresses == [t \in CeloTokenContracts |-> "undefined"]

ConfigIdle ==
    /\ cfgPc = "idle"
    /\ cfgAddresses = NoAddresses
    /\ cfgResolved = {}
    /\ cfgStarted = <<>>
    /\ cfgError = NoError

ConfigStart == ConfigIdle

ConfigQuiet == ConfigIdle

NextConfig ==
    \/ GetNetworkConfig /\ UNCHANGED outsideConfig
    \/ \E addresses \in [CeloTokenContracts -> TokenAddresses] :
           AddressesAnswer(addresses) /\ UNCHANGED outsideConfig
    \/ AddressesReject /\ UNCHANGED outsideConfig
    \/ \E i \in DOMAIN Wrappers :
           WrapperResolves(i) /\ UNCHANGED outsideConfig
    \/ \E i \in DOMAIN Wrappers :
           WrapperFails(i) /\ UNCHANGED outsideConfig

(***************************************************************************)
(* Specifications.                                                         *)
(***************************************************************************)
InitCode ==
    CodeStart /\ WaitQuiet /\ LookupQuiet /\ ProbeQuiet /\ RevokeQuiet /\ StatusQuiet
    /\ RequestQuiet /\ DecodeQuiet /\ AccountsQuiet /\ CompareQuiet /\ FeeQuiet /\ EpochQuiet /\ ConfigQuiet
SpecCode == InitCode /\ [][NextCode]_vars

InitWait ==
    WaitStart /\ CodeQuiet /\ LookupQuiet /\ ProbeQuiet /\ RevokeQuiet /\ StatusQuiet
    /\ RequestQuiet /\ DecodeQuiet /\ AccountsQuiet /\ CompareQuiet /\ FeeQuiet /\ EpochQuiet /\ ConfigQuiet
SpecWait == InitWait /\ [][NextWait]_vars

InitPoll ==
    WaitStart /\ CodeQuiet /\ LookupQuiet /\ ProbeQuiet /\ RevokeQuiet /\ StatusQuiet
    /\ RequestQuiet /\ DecodeQuiet /\ AccountsQuiet /\ CompareQuiet /\ FeeQuiet /\ EpochQuiet /\ ConfigQuiet
SpecPoll == InitPoll /\ [][NextPoll]_vars

InitLookup ==
    LookupStart /\ WaitQuiet /\ CodeQuiet /\ ProbeQuiet /\ RevokeQuiet /\ StatusQuiet
    /\ RequestQuiet /\ DecodeQuiet /\ AccountsQuiet /\ CompareQuiet /\ FeeQuiet /\ EpochQuiet /\ ConfigQuiet
SpecLookup == InitLookup /\ [][NextLookup]_vars

InitProbe ==
    ProbeStart /\ WaitQuiet /\ CodeQuiet /\ LookupQuiet /\ RevokeQuiet /\ StatusQuiet
    /\ RequestQuiet /\ DecodeQuiet /\ AccountsQuiet /\ CompareQuiet /\ FeeQuiet /\ EpochQuiet /\ ConfigQuiet
SpecProbe == InitProbe /\ [][NextProbe]_vars

InitPool ==
    PoolStart /\ WaitQuiet /\ CodeQuiet /\ LookupQuiet /\ RevokeQuiet /\ StatusQuiet
    /\ RequestQuiet /\ DecodeQuiet /\ AccountsQuiet /\ CompareQuiet /\ FeeQuiet /\ EpochQuiet /\ ConfigQuiet
SpecPool == InitPool /\ [][NextPool]_vars

InitRevoke ==
    RevokeStart /\ WaitQuiet /\ CodeQuiet /\ LookupQuiet /\ ProbeQuiet /\ StatusQuiet
    /\ RequestQuiet /\ DecodeQuiet /\ AccountsQuiet /\ CompareQuiet /\ FeeQuiet /\ EpochQuiet /\ ConfigQuiet
SpecRevoke == InitRevoke /\ [][NextRevoke]_vars

InitStatus ==
    StatusStart /\ WaitQuiet /\ CodeQuiet /\ LookupQuiet /\ ProbeQuiet /\ RevokeQuiet
    /\ RequestQuiet /\ DecodeQuiet /\ AccountsQuiet /\ CompareQuiet /\ FeeQuiet /\ EpochQuiet /\ ConfigQuiet
SpecStatus == InitStatus /\ [][NextStatus]_vars

InitRequest ==
    RequestStart /\ WaitQuiet /\ CodeQuiet /\ LookupQuiet /\ ProbeQuiet /\ RevokeQuiet
    /\ StatusQuiet /\ DecodeQuiet /\ AccountsQuiet /\ CompareQuiet /\ FeeQuiet /\ EpochQuiet /\ ConfigQuiet
SpecRequest == InitRequest /\ [][NextRequest]_vars

InitTransactions ==
    TransactionsStart /\ LookupQuiet /\ ProbeQuiet /\ StatusQuiet /\ DecodeQuiet /\ AccountsQuiet /\ CompareQuiet /\ FeeQuiet /\ EpochQuiet /\ ConfigQuiet
SpecTransactions == InitTransactions /\ [][NextTransactions]_vars

InitDecode ==
    DecodeStart /\ WaitQuiet /\ CodeQuiet /\ LookupQuiet /\ ProbeQuiet /\ RevokeQuiet
    /\ StatusQuiet /\ RequestQuiet /\ AccountsQuiet /\ CompareQuiet /\ FeeQuiet /\ EpochQuiet /\ ConfigQuiet
SpecDecode == InitDecode /\ [][NextDecode]_vars

InitSigners ==
    AccountsStart /\ WaitQuiet /\ CodeQuiet /\ LookupQuiet /\ ProbeQuiet /\ RevokeQuiet
    /\ StatusQuiet /\ RequestQuiet /\ DecodeQuiet /\ CompareQuiet /\ FeeQuiet /\ EpochQuiet /\ ConfigQuiet
SpecSigners == InitSigners /\ [][NextSigners]_vars

InitAuthorize == InitSigners
SpecAuthorize == InitAuthorize /\ [][NextAuthorize]_vars

InitProfile ==
    AccountsStart /\ WaitQuiet /\ CodeQuiet /\ LookupQuiet /\ ProbeQuiet /\ RevokeQuiet
    /\ StatusQuiet /\ RequestQuiet /\ DecodeQuiet /\ CompareQuiet /\ FeeQuiet /\ EpochQuiet /\ ConfigQuiet
SpecProfile == InitProfile /\ [][NextProfile]_vars

InitCompare ==
    StatusStart /\ CompareStart /\ WaitQuiet /\ CodeQuiet /\ LookupQuiet /\ ProbeQuiet
    /\ RevokeQuiet /\ RequestQuiet /\ DecodeQuiet /\ AccountsQuiet /\ FeeQuiet /\ EpochQuiet /\ ConfigQuiet
SpecCompare == InitCompare /\ [][NextCompare]_vars

InitFee ==
    FeeStart /\ WaitQuiet /\ CodeQuiet /\ LookupQuiet /\ ProbeQuiet /\ RevokeQuiet
    /\ StatusQuiet /\ RequestQuiet /\ DecodeQuiet /\ AccountsQuiet /\ CompareQuiet /\ EpochQuiet /\ ConfigQuiet
SpecFee == InitFee /\ [][NextFee]_vars

InitEpoch ==
    EpochStart /\ WaitQuiet /\ CodeQuiet /\ LookupQuiet /\ ProbeQuiet /\ RevokeQuiet
    /\ StatusQuiet /\ RequestQuiet /\ DecodeQuiet /\ AccountsQuiet /\ CompareQuiet
    /\ FeeQuiet /\ ConfigQuiet
SpecEpoch == InitEpoch /\ [][NextEpoch]_vars

InitConfig ==
    ConfigStart /\ WaitQuiet /\ CodeQuiet /\ LookupQuiet /\ ProbeQuiet /\ RevokeQuiet
    /\ StatusQuiet /\ RequestQuiet /\ DecodeQuiet /\ AccountsQuiet /\ CompareQuiet
    /\ FeeQuiet /\ EpochQuiet
SpecConfig == InitConfig /\ [][NextConfig]_vars

\* every await completes and the wall clock advances; the chain need not
\* produce blocks
SpecWaitFair == SpecWait /\ WF_vars(WaitStep) /\ WF_vars(Tick)

WaitOver == wPc \in {"returned", "threw"}
\* the UnselectedRequest was read and is a pending one
Pending == unselectedRequest > 0
\* r = unselectedRequest.blockNumber + selectIssuersWaitBlocks
Required == unselectedRequest + waitBlocks
Elapsed(t) == t - startTime
Deadline == timeoutSeconds * MsPerSecond

(***************************************************************************)
(* C2. A wait on an UnselectedRequest whose blockNumber is 0 never reads   *)
(* the current block number, never sleeps and never returns: once the      *)
(* selectIssuersWaitBlocks read that precedes the test has answered, the   *)
(* call has thrown 'No unselectedRequest to wait for', whatever            *)
(* timeoutSeconds and pollDurationSeconds are (if that read itself fails,  *)
(* its error is the one thrown).                                           *)
(***************************************************************************)
C2_NoPendingRequestFailsAtOnce ==
    unselectedRequest = 0 =>
        /\ firstBlock = Unread
        /\ blockNumber = Unread
        /\ ~slept
        /\ wPc \in {"selectIssuersWaitBlocks", "threw"}
        /\ wPc = "threw" =>
              wError = IF waitBlocks = Unread THEN ErrChainRead
                       ELSE ErrNoUnselectedRequest

C2_Witness ==
    /\ unselectedRequest = 0
    /\ wPc = "threw"
    /\ wError = ErrNoUnselectedRequest
    /\ timeoutSeconds > 0
    /\ chainHeight >= chainWaitBlocks

(***************************************************************************)
(* C3. With a pending request, when the first block number read is at      *)
(* least r = unselectedRequest.blockNumber + waitBlocks, the wait has      *)
(* returned successfully and no sleep was executed.                        *)
(***************************************************************************)
C3_FirstPollSelectableReturnsWithoutSleep ==
    (Pending /\ firstBlock # Unread /\ firstBlock >= Required) =>
        /\ wPc = "returned"
        /\ ~slept
        /\ blockNumber = firstBlock
        /\ wError = NoError

C3_Witness ==
    /\ Pending
    /\ firstBlock = Required
    /\ waitBlocks > 0
    /\ wPc = "returned"
    /\ ~slept

(***************************************************************************)
(* C4, as claimed. With a pending request, if the chain stays below r (so  *)
(* that every block number read is below r) until more than timeoutSeconds *)
(* have elapsed since the call started, the wait does not return           *)
(* successfully and (no chain read having failed) ends with the Timeout    *)
(* error.                                                                  *)
(***************************************************************************)
BelowUntilDeadline ==
    \/ reachedAt = Unread
    \/ Elapsed(reachedAt) > Deadline

C4_TimeoutWheneverBelowUntilDeadline ==
    (Pending /\ WaitOver /\ BelowUntilDeadline /\ wError # ErrChainRead) =>
        /\ wPc = "threw"
        /\ wError = ErrTimeout

(***************************************************************************)
(* C4, amended. With a pending request, if every block number read during  *)
(* the whole wait is below r, the wait never returns successfully: it ends *)
(* with the Timeout error, thrown by a loop test made when at least        *)
(* timeoutSeconds * 1000 ms have elapsed, or with the error of a failed    *)
(* chain read.  A successful return always follows a read of a block       *)
(* number >= r, which may complete after the deadline when its poll        *)
(* started before it.                                                      *)
(***************************************************************************)
C4_TimeoutWheneverAllReadsBelow ==
    /\ (Pending /\ allBelow) =>
          /\ wPc # "returned"
          /\ wPc = "threw" =>
                /\ wError \in {ErrTimeout, ErrChainRead}
                /\ wError = ErrTimeout => Elapsed(now) >= Deadline
    /\ wPc = "returned" => (Pending /\ ~allBelow /\ blockNumber >= Required)

C4_Witness ==
    /\ Pending
    /\ allBelow
    /\ wPc = "threw"
    /\ wError = ErrTimeout
    /\ firstBlock # Unread
    /\ slept

(***************************************************************************)
(* C5. Every call of waitForSelectingIssuers eventually returns or throws, *)
(* provided every await completes and the wall clock advances; new blocks  *)
(* are not needed.                                                         *)
(***************************************************************************)
C5_WaitTerminates == (wPc # "idle") ~> WaitOver

C5_Witness ==
    /\ wPc = "threw"
    /\ wError = ErrTimeout
    /\ slept
    /\ blockNumber = chainHeight
    /\ pollDurationSeconds > 0

(***************************************************************************)
(* C6. selectIssuersAfterWait builds the selectIssuers transaction only    *)
(* after its wait returned successfully; when the wait throws (no pending  *)
(* request, timeout, chain read error), selectIssuersAfterWait throws the  *)
(* same error and builds no transaction.                                   *)
(***************************************************************************)
C6_SelectionBuiltOnlyAfterSuccessfulWait ==
    /\ txBuilt # {} =>
          /\ wPc = "returned"
          /\ saPc = "returned"
          /\ txBuilt = {SelectIssuers(wIdentifier)}
    /\ saPc = "returned" => (wPc = "returned" /\ txBuilt # {})
    /\ wPc = "threw" => (txBuilt = {} /\ saPc # "returned")
    /\ saPc = "threw" => (wPc = "threw" /\ saError = wError)

C6_Witness ==
    /\ saPc = "threw"
    /\ saError = ErrTimeout
    /\ txBuilt = {}
    /\ firstBlock # Unread

(***************************************************************************)
(* What the claims on completion codes speak of: code is a well-formed     *)
(* signature by signer over the message of (identifier, account).          *)
(***************************************************************************)
SignedBy(code, identifier, account, signer) ==
    /\ code.wellFormed
    /\ code.message = <<identifier, account>>
    /\ code.signer = signer

\* the signer the registry answered for the issuer of the call
SignerWasRead == opRead # <<>>

CodeOfCallIsValid ==
    /\ SignerWasRead
    /\ SignedBy(opArgs.code, opArgs.identifier, opArgs.account, opRead[1])

\* every signer a call obtains is the one the registry holds for the
\* issuer when the read is answered
ReadsAnswerTheRegistry ==
    opRead' # opRead =>
        opRead' = Append(opRead, accountsSigner[IssuerRead])

(***************************************************************************)
(* C7. complete(identifier, account, issuer, code) returns the completion  *)
(* transaction, carrying identifier and the signature's (v, r, s), exactly *)
(* when code is a well-formed signature over the message of (identifier,   *)
(* account) by the attestation signer the account registry answers for     *)
(* issuer; otherwise it throws the verification error and builds no        *)
(* transaction.  Without an answer of the registry the call rejects with   *)
(* the error of the read and builds no transaction either.                 *)
(***************************************************************************)
CompleteDecided ==
    op = "complete" =>
        /\ opPc # "over" => (opOutcome = "none" /\ opTx = {})
        /\ opPc = "over" /\ SignerWasRead =>
              /\ opOutcome = "returned" <=> CodeOfCallIsValid
              /\ opOutcome = "threw" <=> ~CodeOfCallIsValid
              /\ CodeOfCallIsValid =>
                    /\ opTx = {[method |-> "complete",
                                identifier |-> opArgs.identifier,
                                vrs |-> opArgs.code]}
                    /\ opError = NoError
              /\ ~CodeOfCallIsValid =>
                    (opTx = {} /\ opError = ErrVerification)
        /\ opPc = "over" /\ ~SignerWasRead =>
              (opOutcome = "threw" /\ opError = ErrChainRead /\ opTx = {})

C7_CompleteIffCodeSignedByIssuerSigner ==
    []CompleteDecided /\ [][ReadsAnswerTheRegistry]_vars

\* the code is signed by the signer the registry held when the read was
\* answered, which is not the issuer itself
C7_Witness ==
    /\ op = "complete"
    /\ opOutcome = "returned"
    /\ opTx # {}
    /\ opRead[1] # opArgs.issuer
    /\ opArgs.code.signer = opRead[1]

(***************************************************************************)
(* C8. findMatchingIssuer returns, without throwing a verification error,  *)
(* the issuer at the smallest index of the list whose attestation signer,  *)
(* as the registry answers it, validates code over the message of          *)
(* (identifier, account), having asked for the signers of the issuers up   *)
(* to that index only; it returns null exactly when no issuer of the list  *)
(* validates the code.  It rejects only with the error of a rejected read. *)
(***************************************************************************)
MatchingIndexes ==
    {i \in 1..Len(opRead) :
        SignedBy(opArgs.code, opArgs.identifier, opArgs.account,
                 opRead[i])}

FindDecided ==
    op = "findMatchingIssuer" =>
        /\ opTx = {}
        /\ opPc # "over" => (opOutcome = "none" /\ MatchingIndexes = {})
        /\ opPc = "over" /\ opOutcome = "threw" =>
              (opError = ErrChainRead /\ MatchingIndexes = {})
        /\ opPc = "over" /\ opOutcome # "threw" =>
              /\ opOutcome = "returned"
              /\ opError = NoError
              /\ opConsulted = Len(opRead)
              /\ opValue = "null" <=> MatchingIndexes = {}
              /\ MatchingIndexes = {} => Len(opRead) = Len(opArgs.issuers)
              /\ MatchingIndexes # {} =>
                    /\ MatchingIndexes = {Len(opRead)}
                    /\ opValue = opArgs.issuers[Len(opRead)]

C8_FindMatchingIssuerFirstMatchWins ==
    []FindDecided /\ [][ReadsAnswerTheRegistry]_vars

\* two different issuers whose signers both validate the code: the first
\* is returned and the signer of the second is not asked for
C8_Witness ==
    /\ op = "findMatchingIssuer"
    /\ opOutcome = "returned"
    /\ Len(opArgs.issuers) = 2
    /\ opArgs.issuers[1] # opArgs.issuers[2]
    /\ MatchingIndexes = {1}
    /\ SignedBy(opArgs.code, opArgs.identifier, opArgs.account,
                accountsSigner[opArgs.issuers[2]])
    /\ opValue = opArgs.issuers[1]
    /\ opConsulted = 1

(***************************************************************************)
(* C9. validateAttestationCode has the precondition of complete (it throws *)
(* the verification error exactly when the code is not a signature of the  *)
(* attestation signer the registry answers for the issuer); when the       *)
(* precondition holds and the contract's view call answers, it returns     *)
(* true exactly when the address answered is not the null address, false   *)
(* otherwise; it builds no transaction.                                    *)
(***************************************************************************)
C9_ValidateIsReadOnlyNonNullCheck ==
    op = "validateAttestationCode" =>
        /\ opTx = {}
        /\ opPc # "over" => opOutcome = "none"
        /\ opPc = "over" /\ SignerWasRead =>
              /\ opError = ErrVerification <=> ~CodeOfCallIsValid
              /\ ~CodeOfCallIsValid => opOutcome = "threw"
              /\ CodeOfCallIsValid /\ opOutcome = "threw" =>
                    opError = ErrChainRead
              /\ opOutcome = "returned" =>
                    /\ opValue = "true" <=> opAnswer # NULL_ADDRESS
                    /\ opValue = "false" <=> opAnswer = NULL_ADDRESS
        /\ opPc = "over" /\ ~SignerWasRead =>
              (opOutcome = "threw" /\ opError = ErrChainRead)

C9_Witness ==
    /\ op = "validateAttestationCode"
    /\ opOutcome = "returned"
    /\ opValue = "false"
    /\ opAnswer = NULL_ADDRESS
    /\ CodeOfCallIsValid

(***************************************************************************)
(* C10. lookupIdentifiers decodes the four arrays with a running cursor:   *)
(* the i-th identifier, of match count m_i > 0, is mapped to exactly the   *)
(* m_i addresses at the flat positions m_1 + ... + m_(i-1) + 1 to          *)
(* m_1 + ... + m_i, each with the completed and total values of its own    *)
(* position; an identifier of match count 0 is absent from the result and  *)
(* leaves the cursor where it was.                                         *)
(***************************************************************************)
MatchCount(i) == ValueToInt(lkStats.matches[i])

RECURSIVE MatchesBefore(_)
MatchesBefore(i) ==
    IF i <= 1 THEN 0 ELSE MatchesBefore(i - 1) + MatchCount(i - 1)

PositionsOf(i) == (MatchesBefore(i) + 1)..(MatchesBefore(i) + MatchCount(i))

LookupDecoded ==
    lkPc = "returned" =>
        /\ DOMAIN lkResult =
              {lkIdentifiers[i] :
                  i \in {j \in 1..Len(lkIdentifiers) : MatchCount(j) > 0}}
        /\ \A i \in 1..Len(lkIdentifiers) :
              IF MatchCount(i) = 0
              THEN lkIdentifiers[i] \notin DOMAIN lkResult
              ELSE LET found == lkResult[lkIdentifiers[i]]
                   IN  /\ DOMAIN found =
                             {lkStats.addresses[p] : p \in PositionsOf(i)}
                       /\ Cardinality(DOMAIN found) = MatchCount(i)
                       /\ \A p \in PositionsOf(i) :
                             found[lkStats.addresses[p]] =
                                 [completed |->
                                      ValueToInt(lkStats.completed[p]),
                                  total |-> ValueToInt(lkStats.total[p])]

\* the arrays decoded are those the chain answers when the read is
\* answered; a rejected read rejects the call without a result
LookupReadsTheChain ==
    /\ lkPc' = "returned" /\ lkPc # "returned" =>
          lkStats' = BatchGetAttestationStats(lkIdentifiers)
    /\ lkPc' = "threw" => (lkError' = ErrChainRead /\ lkResult' = EmptyObject)

C10_LookupDecodesByRunningCursor ==
    []LookupDecoded /\ [][LookupReadsTheChain]_vars

C10_Witness ==
    /\ lkPc = "returned"
    /\ Len(lkIdentifiers) = 2
    /\ MatchCount(1) = 0
    /\ MatchCount(2) = 2
    /\ DOMAIN lkResult = {lkIdentifiers[2]}
    /\ Cardinality(DOMAIN lkResult[lkIdentifiers[2]]) = 2
    /\ lkStats.completed # <<"0", "0">>

(***************************************************************************)
(* What the claim on the two probing methods speaks of, once both have     *)
(* returned: the issuers of the entries getActionableAttestations          *)
(* returned, the issuers getNonCompliantIssuers returned, the issuers of   *)
(* the list a call read.                                                   *)
(***************************************************************************)
ActionableCall == pCalls["getActionableAttestations"]
NonCompliantCall == pCalls["getNonCompliantIssuers"]

BothReturned ==
    /\ ActionableCall.state = "returned"
    /\ NonCompliantCall.state = "returned"

ActionableIssuers ==
    {ActionableCall.value[i].issuer : i \in 1..Len(ActionableCall.value)}
NonCompliantIssuers ==
    {NonCompliantCall.value[i] : i \in 1..Len(NonCompliantCall.value)}
CandidatesRead(call) == {call.entries[i].issuer : i \in 1..Len(call.entries)}

Complementary(S) ==
    /\ ActionableIssuers \cup NonCompliantIssuers = S
    /\ ActionableIssuers \cap NonCompliantIssuers = {}

\* the issuers a call found valid (v = TRUE) or not valid (v = FALSE)
Classified(call, v) ==
    {call.entries[i].issuer : i \in {j \in 1..Len(call.entries) :
                                       call.valid[j] = v}}

(***************************************************************************)
(* C1, as claimed. When the chain returns the same candidate list S to a   *)
(* call of getActionableAttestations and to a call of                      *)
(* getNonCompliantIssuers, the issuers of the first result and the second  *)
(* result are complementary over S: their union is S and they are          *)
(* disjoint.                                                               *)
(***************************************************************************)
C1_ResultsComplementaryOverCandidates ==
    (BothReturned /\ ActionableCall.entries = NonCompliantCall.entries)
        => Complementary(CandidatesRead(ActionableCall))

(***************************************************************************)
(* C1, amended. Each call returns exactly what its own probes found:       *)
(* getActionableAttestations the entries of the issuers its probes found   *)
(* valid, getNonCompliantIssuers the issuers its probes found not valid,   *)
(* of the list it read itself.  The two results are complementary over S   *)
(* when both calls read the same list S and every issuer's probe has the   *)
(* same outcome in both calls.                                             *)
(***************************************************************************)
C1_ResultsComplementaryWhenProbesAgree ==
    /\ ActionableCall.state = "returned"
           => ActionableIssuers = Classified(ActionableCall, TRUE)
    /\ NonCompliantCall.state = "returned"
           => NonCompliantIssuers = Classified(NonCompliantCall, FALSE)
    /\ (/\ BothReturned
        /\ ActionableCall.entries = NonCompliantCall.entries
        /\ ActionableCall.valid = NonCompliantCall.valid)
           => Complementary(CandidatesRead(ActionableCall))

C1_Witness ==
    /\ BothReturned
    /\ ActionableCall.entries = NonCompliantCall.entries
    /\ ActionableCall.valid = NonCompliantCall.valid
    /\ ActionableIssuers # {}
    /\ NonCompliantIssuers # {}

(***************************************************************************)
(* C11. revoke(identifier, account) looks account up in the list the       *)
(* contract answers for identifier to the read the call makes: when no     *)
(* entry of the list equals account ignoring letter case it throws the     *)
(* 'not found' error and builds no transaction; otherwise it returns the   *)
(* revoke transaction whose index is the position (from 0) of the first    *)
(* entry equal to account ignoring letter case.  Without an answer the     *)
(* call rejects with the error of the read and builds no transaction.      *)
(***************************************************************************)
RevokeList == rvList
RevokeMatches ==
    {i \in 1..Len(RevokeList) :
        ToLowerCase(RevokeList[i]) = ToLowerCase(rvArgs.account)}

RevokeListWasRead == rvPc \in {"returned", "threw"} /\ rvError # ErrChainRead

RevokeDecided ==
    /\ RevokeListWasRead =>
          IF RevokeMatches = {}
          THEN rvPc = "threw" /\ rvError = ErrAccountNotFound /\ rvTx = {}
          ELSE /\ rvPc = "returned"
               /\ rvError = NoError
               /\ \E first \in RevokeMatches :
                      /\ \A i \in RevokeMatches : first <= i
                      /\ rvTx = {RevokeTx(rvArgs.identifier, first - 1)}
    /\ ~RevokeListWasRead => rvTx = {}

\* the list looked up is the one the chain holds for the identifier when
\* the read is answered
RevokeReadsTheChain ==
    rvList' # rvList => rvList' = chainAccounts[rvArgs.identifier]

C11_RevokeByIndexOfFirstMatch ==
    []RevokeDecided /\ [][RevokeReadsTheChain]_vars

\* the account is found past the head of the list, written there in
\* another letter case
C11_Witness ==
    /\ rvPc = "returned"
    /\ 1 \notin RevokeMatches
    /\ \E i \in RevokeMatches :
           /\ \A j \in RevokeMatches : i <= j
           /\ RevokeList[i] # rvArgs.account

(***************************************************************************)
(* What the claims on getAttestationServiceStatus speak of: the call is    *)
(* over, the status body was read, what it says of the node.               *)
(***************************************************************************)
StatusOver == ssPc = "returned"
BodyRead == ssBody # NoBody
VersionDeclared == BodyRead /\ ssBody.version # "undefined"
StaleOrSyncing ==
    \/ ssBody.ageOfLatestBlock \in {a \in Ages : a > 10}
    \/ ssBody.isNodeSyncing = "true"
AccountsAgree ==
    ToLowerCase(ssBody.accountAddress) = ToLowerCase(ssValidator)
ComparisonState == IF AccountsAgree THEN "Valid" ELSE "WrongAccount"

(***************************************************************************)
(* C12. The state is decided by the first blocking condition, in the       *)
(* order: no authorized signer, no metadata URL, metadata URL starting     *)
(* with http://, metadata fetch/parse failure, no attestation-service-URL  *)
(* claim, status endpoint unreachable or non-2xx; the call then returns    *)
(* with the state of that condition and has issued no later request (the   *)
(* read of the metadata URL, the metadata fetch, the status request, the   *)
(* healthz request).                                                       *)
(***************************************************************************)
C12_FirstBlockingConditionDecides ==
    StatusOver =>
        IF ~ssHasSigner
        THEN ssRet.state = "NoAttestationSigner" /\ ssRequests = {}
        ELSE IF ssRet.metadataURL = ""
        THEN /\ ssRet.state = "NoMetadataURL"
             /\ ssRequests = {"getMetadataURL"}
        ELSE IF ssRet.metadataURL = "http://meta"
        THEN /\ ssRet.state = "InvalidAttestationServiceURL"
             /\ ssRequests = {"getMetadataURL"}
        ELSE IF ssMetadata.kind = "throws"
        THEN /\ ssRet.state \in {"InvalidMetadata", "MetadataTimeout"}
             /\ ssRequests = {"getMetadataURL", "metadata"}
        ELSE IF ~ssMetadata.claim
        THEN /\ ssRet.state = "NoAttestationServiceURL"
             /\ ssRequests = {"getMetadataURL", "metadata"}
        ELSE IF ssStatus \in {"throws", "non2xx"}
        THEN /\ ssRet.state = "UnreachableAttestationService"
             /\ ssRequests = {"getMetadataURL", "metadata", "status"}
        ELSE /\ ssMetadata.kind = "ok"
             /\ ssStatus = "2xx"
             /\ ssRet.state \notin {"NoAttestationSigner", "NoMetadataURL",
                                    "InvalidAttestationServiceURL",
                                    "InvalidMetadata", "MetadataTimeout",
                                    "NoAttestationServiceURL"}

\* a call stopped by the status endpoint after every earlier step passed,
\* the metadata URL being one that does not start with lower-case http://
C12_Witness ==
    /\ StatusOver
    /\ ssHasSigner
    /\ ssRet.metadataURL = "HTTP://meta"
    /\ ssStatus = "non2xx"
    /\ ssRet.state = "UnreachableAttestationService"

(***************************************************************************)
(* C13. When the status response declares a version and reports            *)
(* ageOfLatestBlock > 10 or a syncing node, the final state is Unhealthy,  *)
(* whatever the healthz step gave (2xx, non-2xx, unreachable) and whether  *)
(* or not the reported account matches.                                    *)
(***************************************************************************)
C13_StaleOrSyncingNodeIsUnhealthy ==
    (StatusOver /\ VersionDeclared /\ StaleOrSyncing)
        => ssRet.state = "Unhealthy"

\* ageOfLatestBlock = 20, healthz answered 2xx with a plain body, the
\* account matches
C13_Witness ==
    /\ StatusOver
    /\ VersionDeclared
    /\ ssBody.ageOfLatestBlock = 20
    /\ ssBody.isNodeSyncing = "false"
    /\ ssHealthzOk
    /\ ssHealthz = "body"
    /\ ssRet.rightAccount
    /\ ssRet.state = "Unhealthy"

(***************************************************************************)
(* C14, as claimed. When the status response declares a version and the    *)
(* node is neither stale nor syncing: a healthz request that fails yields  *)
(* UnreachableHealthz; a healthz response with a non-2xx code yields       *)
(* Unhealthy, the error embedded in its body being recorded when present;  *)
(* a healthz response with a 2xx code leaves the state of the account      *)
(* comparison.                                                             *)
(***************************************************************************)
HealthzAnswered == ssHealthz \in {"json threw", "body", "body with error"}

C14_HealthzOutcomeDecides ==
    (StatusOver /\ VersionDeclared /\ ~StaleOrSyncing) =>
        /\ ssHealthz = "fetch threw" => ssRet.state = "UnreachableHealthz"
        /\ (HealthzAnswered /\ ~ssHealthzOk) =>
               /\ ssRet.state = "Unhealthy"
               /\ ssHealthz = "body with error" => ssRet.error = HealthzError
        /\ (HealthzAnswered /\ ssHealthzOk) => ssRet.state = ComparisonState

(***************************************************************************)
(* C15. A failure of the metadata step yields MetadataTimeout exactly when *)
(* the error is tagged 'system' and InvalidMetadata for every other error; *)
(* the error is recorded in the result, the call returns, and neither the  *)
(* status nor the healthz endpoint is contacted.                           *)
(***************************************************************************)
C15_MetadataFailureClassified ==
    ssMetadata.kind = "throws" =>
        /\ StatusOver
        /\ ssRet.state = "MetadataTimeout" <=> ssMetadata.error.type = "system"
        /\ ssRet.state = "InvalidMetadata" <=> ssMetadata.error.type # "system"
        /\ ssRet.error = ssMetadata.error
        /\ ssRequests \cap {"status", "healthz"} = {}

C15_Witness ==
    /\ StatusOver
    /\ ssMetadata.kind = "throws"
    /\ ssMetadata.error.type = "system"
    /\ ssRet.state = "MetadataTimeout"

(***************************************************************************)
(* C16. When the status response carries no version, the reported version  *)
(* is "1.0.0", the healthz endpoint is never requested, and the final      *)
(* state is the state of the account comparison, also when                 *)
(* ageOfLatestBlock > 10 or the node reports syncing.                      *)
(***************************************************************************)
C16_NoVersionSkipsHealthz ==
    (BodyRead /\ ~VersionDeclared) =>
        /\ StatusOver
        /\ ssRet.version = "1.0.0"
        /\ "healthz" \notin ssRequests
        /\ ssHealthz = "none"
        /\ ssRet.state = ComparisonState

\* a stale and syncing node without version whose account matches: Valid
C16_Witness ==
    /\ StatusOver
    /\ BodyRead
    /\ ~VersionDeclared
    /\ ssBody.ageOfLatestBlock = 20
    /\ ssBody.isNodeSyncing = "true"
    /\ ssRet.state = "Valid"

(***************************************************************************)
(* C17. Once the status body is read, rightAccount is true exactly when    *)
(* the reported accountAddress equals the validator address ignoring       *)
(* letter case; before the healthz step the state is Valid when            *)
(* rightAccount is true and WrongAccount otherwise; a state of Valid       *)
(* implies rightAccount.                                                   *)
(***************************************************************************)
C17_RightAccountDecidesValid ==
    /\ BodyRead => (ssRet.rightAccount <=> AccountsAgree)
    /\ ssPc \in {"healthz", "healthzJson"} =>
           ssRet.state = IF ssRet.rightAccount THEN "Valid"
                         ELSE "WrongAccount"
    /\ ssRet.state = "Valid" => ssRet.rightAccount
    /\ ~BodyRead => ~ssRet.rightAccount

\* the account is reported in another letter case and the final state is
\* Valid after a healthz answer
C17_Witness ==
    /\ StatusOver
    /\ ssRet.state = "Valid"
    /\ ssBody.accountAddress # ssValidator
    /\ ssHealthz = "body"

(***************************************************************************)
(* What the claims on the probes speak of: a probe is resolved, a call has *)
(* returned.                                                               *)
(***************************************************************************)
Resolved(i) == "pending" \notin DOMAIN pResults[i]
ReturnedCalls == {m \in ProbeMethods : pCalls[m].state = "returned"}

(***************************************************************************)
(* C18. During a call of getActionableAttestations or                      *)
(* getNonCompliantIssuers at most 5 probes are in flight at any time, no   *)
(* entry is probed twice, and when the call returns every entry of the     *)
(* list the chain returned has been probed exactly once.                   *)
(***************************************************************************)
C18_AtMostFiveInFlightEachProbedOnce ==
    /\ Cardinality(pInflight) <= 5
    /\ pPc = "probing" =>
           \A i \in 1..Len(pEntries) :
               /\ pSeen.probes[i] <= 1
               /\ (i \in pInflight \/ Resolved(i)) => pSeen.probes[i] = 1
    /\ \A m \in ReturnedCalls :
           /\ Len(pCalls[m].seen.probes) = Len(pCalls[m].seen.chain)
           /\ \A i \in 1..Len(pCalls[m].seen.chain) :
                  pCalls[m].seen.probes[i] = 1

\* a call over more candidates than fit in flight has returned
C18_Witness ==
    \E m \in ReturnedCalls : Len(pCalls[m].seen.chain) > 5

(***************************************************************************)
(* C19. A probe in which any step fails (metadata fetch, missing           *)
(* service-URL claim, status request, non-2xx status, malformed body)      *)
(* classifies its own issuer as not valid and nothing else: every resolved *)
(* probe is valid exactly when all of its own steps passed, the call       *)
(* rejects only when its own chain read rejects, before any probe is       *)
(* called, and it returns with every entry classified by its own probe.    *)
(***************************************************************************)
C19_ProbeFailureStaysWithItsIssuer ==
    /\ \A m \in ProbeMethods :
           pCalls[m].state = "threw" =>
               /\ pCalls[m].error = ErrChainRead
               /\ pCalls[m].seen.probes = <<>>
    /\ pPc = "probing" =>
           \A i \in 1..Len(pEntries) :
               Resolved(i) =>
                   /\ pResults[i].isValid = pSeen.passed[i]
                   /\ ~pResults[i].isValid =>
                          pResults[i].issuer = pEntries[i].issuer
    /\ \A m \in ReturnedCalls :
           /\ Len(pCalls[m].valid) = Len(pCalls[m].seen.chain)
           /\ pCalls[m].valid = pCalls[m].seen.passed

\* the probe of the second entry failed before the probe of the first
\* resolved, and the first was found valid all the same
C19_Witness ==
    \E m \in ReturnedCalls :
        /\ Len(pCalls[m].valid) >= 2
        /\ pCalls[m].valid[1]
        /\ ~pCalls[m].valid[2]
        /\ pCalls[m].seen.reordered

(***************************************************************************)
(* C20. The result of getActionableAttestations is the subsequence of the  *)
(* chain's completable list made of the entries classified valid, in the   *)
(* order of the chain list whatever the order in which the probes          *)
(* resolved; each returned entry carries the issuer and the blockNumber of *)
(* its own chain entry; the entries found not valid are left out.          *)
(***************************************************************************)
RECURSIVE KeptFrom(_, _)
KeptFrom(i, valid) ==
    IF i > Len(valid) THEN <<>>
    ELSE (IF valid[i] THEN <<i>> ELSE <<>>) \o KeptFrom(i + 1, valid)

C20_ActionableKeepsChainOrder ==
    LET call == pCalls["getActionableAttestations"]
        kept == KeptFrom(1, call.valid)
    IN  call.state = "returned" =>
            /\ Len(call.valid) = Len(call.seen.chain)
            /\ Len(call.value) = Len(kept)
            /\ \A k \in 1..Len(kept) :
                   /\ call.value[k].issuer = call.seen.chain[kept[k]].issuer
                   /\ call.value[k].blockNumber =
                          call.seen.chain[kept[k]].blockNumber

\* probes resolved out of order; an entry found not valid lies between two
\* valid ones
C20_Witness ==
    LET call == pCalls["getActionableAttestations"]
    IN  /\ call.state = "returned"
        /\ call.seen.reordered
        /\ Len(call.valid) >= 3
        /\ call.valid[1]
        /\ ~call.valid[2]
        /\ call.valid[3]

(***************************************************************************)
(* C21.  No operation of the wrapper that yields a transaction (request,   *)
(* selectIssuers, selectIssuersAfterWait, complete, revoke,                *)
(* approveAttestationFee) sends it: the steps of these operations leave    *)
(* the state of the chain as it is, and the chain receives a transaction   *)
(* only when the caller sends an object it was handed before.              *)
(***************************************************************************)
\* the positions of the six operations
WrapperPositions == <<rqPc, rqCalls, wPc, saPc, op, opPc, rvPc>>

\* the state the contracts hold
OnChainState ==
    <<chainSent, chainStableToken, chainRequestFee, chainUnselected,
      chainWaitBlocks, chainAccounts, accountsSigner>>

C21_WrapperNeverSendsATransaction ==
    [][/\ WrapperPositions' # WrapperPositions
          => OnChainState' = OnChainState
       /\ chainSent' # chainSent
          => \E tx \in ReturnedTx : chainSent' = chainSent \cup {tx}]_vars

\* every kind of transaction object was handed to the caller, who has sent
\* some of them and not the others
C21_Witness ==
    /\ \E tx \in rqTx : tx.method = "request"
    /\ txBuilt # {}
    /\ opTx # {}
    /\ rvTx # {}
    /\ chainSent # {}
    /\ chainSent \subseteq ReturnedTx
    /\ chainSent # ReturnedTx
    /\ \E tx \in chainSent : tx.method = "complete"

(***************************************************************************)
(* C22.  request(identifier, attestationsRequested) fails with the error   *)
(* of the registry lookup when the lookup of the fee token fails, and      *)
(* then builds no request transaction; when the lookup succeeds, the       *)
(* transaction returned carries the identifier, the requested count and    *)
(* the address the registry holds for the fee token.                       *)
(***************************************************************************)
RequestOver == rqMethod = "request" /\ rqPc \in {"returned", "threw"}

C22_RequestFailsWithLookupOrCarriesFeeToken ==
    /\ [](RequestOver =>
            /\ rqLookup \in {"failed", "answered"}
            /\ rqLookup = "failed" =>
                 /\ rqPc = "threw"
                 /\ rqError = ErrRegistry
                 /\ rqLast = {}
            /\ rqLookup = "answered" =>
                 /\ rqPc = "returned"
                 /\ rqLast = {[method |-> "request",
                               identifier |-> rqArgs.identifier,
                               attestationsRequested |->
                                   rqArgs.attestationsRequested,
                               tokenAddress |-> chainStableToken]})
    /\ [][rqMethod = "request" /\ rqPc = "addressFor" /\ rqLookup' = "failed"
            => rqTx' = rqTx /\ chainSent' = chainSent]_vars

\* a call of request threw after an earlier one returned its transaction,
\* and a call returned a transaction for two attestations
C22_Witness ==
    /\ RequestOver
    /\ rqLookup = "failed"
    /\ rqPc = "threw"
    /\ \E tx \in rqTx : tx.method = "request" /\ tx.attestationsRequested = 2
                        /\ tx.tokenAddress = "0xc2"

(***************************************************************************)
(* C23.  Decoding a packed string array cuts the blob by the lengths, in   *)
(* order: for every list of strings, empty strings included, decoding its  *)
(* lengths and its concatenation gives the list back, string i at place i, *)
(* and uses up exactly the blob; the metadata URL of the i-th completable  *)
(* attestation is the i-th decoded string.                                 *)
(***************************************************************************)
RECURSIVE SumOf(_)
SumOf(q) == IF q = <<>> THEN 0 ELSE Head(q) + SumOf(Tail(q))

C23_PackedStringsDecodeInOrder ==
    /\ dcPc = "decoded" =>
         /\ Len(dcDecoded) = Len(dcStrings)
         /\ \A i \in 1..Len(dcStrings) : dcDecoded[i] = dcStrings[i]
         /\ SumOf(ValuesToInt(dcResponse[1])) = Len(dcResponse[2])
    /\ dcPc = "parsed" =>
         /\ Len(dcParsed) = Len(dcStrings)
         /\ \A i \in 1..Len(dcStrings) :
                /\ dcParsed[i].metadataURL = dcStrings[i]
                /\ dcParsed[i].issuer = IssuerPool[i]
                /\ dcParsed[i].blockNumber = i

\* a string, the empty string, and a longer string were decoded
C23_Witness ==
    /\ dcPc = "decoded"
    /\ dcResponse = <<<<"1", "0", "2">>, <<"a", "b", "a">>>>
    /\ dcDecoded = <<<<"a">>, <<>>, <<"b", "a">>>>

(***************************************************************************)
(* C24.  An authorization in two steps takes effect only at the second     *)
(* step: authorizeSigner(signer, role) from the account leaves every       *)
(* isSigner answer as it was; without a signature, isSigner(account,       *)
(* signer, role) turns true only in completeSignerAuthorization(account,   *)
(* role) called by the signer itself; and once a signer is a signer of     *)
(* the account, authorizedBy(signer) is the account and                    *)
(* isAuthorizedSigner(signer) is true, from then on.                       *)
(***************************************************************************)
SignatureCalls == {"authorizeSignerWithSignature", "authorizeVoteSigner"}

C24_TwoStepAuthorizationTakesEffectAtSecondStep ==
    /\ [](\A a \in Holders, s \in Holders, r \in Roles :
            IsSigner(a, s, r) => AuthorizedBy(s) = a /\ IsAuthorizedSigner(s))
    /\ [][/\ acCall'.fn = "authorizeSigner" =>
               \A a \in Holders, s \in Holders, r \in Roles :
                   IsSigner(a, s, r)' = IsSigner(a, s, r)
          /\ \A a \in Holders, s \in Holders, r \in Roles :
               /\ ~IsSigner(a, s, r) /\ IsSigner(a, s, r)'
                  /\ acCall'.fn \notin SignatureCalls
                  => /\ acCall' = Called("completeSignerAuthorization", s, a,
                                         r, NoSignature, TRUE)
                     /\ Started(a, r, s)
               /\ AuthorizedBy(s) = a
                  => AuthorizedBy(s)' = a /\ IsAuthorizedSigner(s)']_vars

\* acc1 has just completed the authorization that the account acc0 began
\* for the test role
C24_Witness ==
    /\ acCall = Called("completeSignerAuthorization", "acc1", "acc0",
                       TestRole, NoSignature, TRUE)
    /\ Started("acc0", TestRole, "acc1")
    /\ IsSigner("acc0", "acc1", TestRole)
    /\ AuthorizedBy("acc1") = "acc0"
    /\ IsAuthorizedSigner("acc1")

(***************************************************************************)
(* C25.  An authorization with a signature reverts and leaves the          *)
(* authorization state as it was when the signer is itself an account,     *)
(* when another account already authorized the signer (with a signature    *)
(* or in two steps), or when the signature is not the signer's over the    *)
(* authorizing account; and no address is ever a signer of two different   *)
(* accounts, whichever of the two paths the accounts take: the second      *)
(* step of an authorization in two steps reverts as well when another      *)
(* account authorized the signer in the meantime.                          *)
(***************************************************************************)
AuthorizationState ==
    <<acAccounts, acSigner, acStarted, acCompleted, acAuthorizedBy>>

AccountsOf(signer) ==
    {a \in Holders : \/ \E r \in Roles : IsSigner(a, signer, r)
                     \/ \E r \in Roles : acSigner[a][r] = signer
                     \/ AuthorizedBy(signer) = a}

\* the calls that complete an authorization: with a signature from the
\* account, or the second of the two steps from the signer
AuthorizingAccount(call) ==
    IF call.fn = "completeSignerAuthorization" THEN call.address
    ELSE call.sender
AuthorizedSigner(call) ==
    IF call.fn = "completeSignerAuthorization" THEN call.sender
    ELSE call.address

SecondStepRefused ==
    /\ acCall = Called("completeSignerAuthorization", "acc1", "acc0",
                       TestRole, NoSignature, FALSE)
    /\ IsAccount("acc0")
    /\ Started("acc0", TestRole, "acc1")
    /\ AuthorizedBy("acc1") = "acc2"
    /\ AccountsOf("acc1") = {"acc2"}

(***************************************************************************)
(* C26.  When an account whose role has the signer s1 authorizes a second  *)
(* signer s2 for the role with a signature, the signer read from the       *)
(* account for the role becomes s2 and the account read from s2 is the     *)
(* account, while authorizedBy(s1) is still the account.                   *)
(***************************************************************************)
C26_SecondSignerReplacesAndFirstStaysAuthorized ==
    [][\A a \in Holders, s1 \in Holders, s2 \in Holders, r \in Roles :
          /\ acCalls' # acCalls
          /\ acCall'.fn \in SignatureCalls
          /\ acCall'.sender = a /\ acCall'.address = s2 /\ acCall'.role = r
          /\ acCall'.outcome = "ok"
          /\ HasAuthorizedSigner(a, r) /\ GetSigner(a, r) = s1 /\ s1 # s2
          => /\ AuthorizedBy(s1) = a
             /\ GetSigner(a, r)' = s2
             /\ SignerToAccount(s2)' = a
             /\ AuthorizedBy(s2)' = a
             /\ AuthorizedBy(s1)' = a]_vars

\* the account acc0 authorized the vote signer acc1 and then, by the last
\* call, the vote signer acc2
C26_Witness ==
    /\ acCall = Called("authorizeVoteSigner", "acc0", "acc2", VotingKey,
                       GetParsedSignatureOfAddress("acc0", "acc2"), TRUE)
    /\ IsSigner("acc0", "acc1", VotingKey)
    /\ GetSigner("acc0", VotingKey) = "acc2"
    /\ SignerToAccount("acc2") = "acc0"
    /\ AuthorizedBy("acc1") = "acc0"

(***************************************************************************)
(* C27.  Removing the signer of a role after authorizing it restores the   *)
(* default: hasAuthorizedSigner of the account and the role is false, the  *)
(* signer read from the account for the role is the account itself, and    *)
(* isSigner of the account, the removed signer and the role is false.      *)
(***************************************************************************)
RemovalCalls == {"removeSigner", "removeVoteSigner"}

C27_RemovingTheSignerRestoresTheDefault ==
    [][\A a \in Holders, s \in Holders, r \in Roles :
          /\ acCalls' # acCalls
          /\ acCall'.fn \in RemovalCalls
          /\ acCall'.sender = a /\ acCall'.role = r
          /\ IsAccount(a)
          /\ HasAuthorizedSigner(a, r) /\ GetSigner(a, r) = s
          => /\ IsSigner(a, s, r)
             /\ ~HasAuthorizedSigner(a, r)'
             /\ GetSigner(a, r)' = a
             /\ ~IsSigner(a, s, r)']_vars

\* the account acc0 authorized acc1 for the test role and has just removed
\* the signer of the role
C27_Witness ==
    /\ acCall = Called("removeSigner", "acc0", "acc1", TestRole,
                       NoSignature, TRUE)
    /\ IsAccount("acc0")
    /\ AuthorizedBy("acc1") = "acc0"
    /\ ~HasAuthorizedSigner("acc0", TestRole)
    /\ GetSigner("acc0", TestRole) = "acc0"
    /\ ~IsSigner("acc0", "acc1", TestRole)

(***************************************************************************)
(* C29.  For an account that authorized no signer for a role, the signer   *)
(* read from the account for the role is the account itself, and the       *)
(* account read from the account's own address is the account; both        *)
(* lookups revert for an address that is neither an account nor an         *)
(* authorized signer; and once the account authorized the signer s, the    *)
(* account read from s and from the account's own address is the account.  *)
(***************************************************************************)
C29_LookupsDefaultToTheAccountAndRevertForStrangers ==
    \A a \in Holders :
        /\ IsAccount(a) =>
             /\ SignerToAccount(a) = a
             /\ \A r \in Roles :
                  ~HasAuthorizedSigner(a, r) => GetSigner(a, r) = a
             /\ \A s \in Holders, r \in Roles :
                  IsSigner(a, s, r) \/ GetSigner(a, r) = s
                  => SignerToAccount(s) = a
        /\ ~IsAccount(a) /\ ~IsAuthorizedSigner(a) =>
             /\ SignerToAccount(a) = Reverted
             /\ \A r \in Roles : GetSigner(a, r) = Reverted

\* the account acc0 has the vote signer acc1 and no signer for the test
\* role, and acc2 is neither an account nor a signer
C29_Witness ==
    /\ IsAccount("acc0")
    /\ acCall.fn \in SignatureCalls
    /\ GetSigner("acc0", VotingKey) = "acc1"
    /\ ~HasAuthorizedSigner("acc0", TestRole)
    /\ GetSigner("acc0", TestRole) = "acc0"
    /\ SignerToAccount("acc1") = "acc0"
    /\ SignerToAccount("acc0") = "acc0"
    /\ ~IsAccount("acc2") /\ ~IsAuthorizedSigner("acc2")
    /\ SignerToAccount("acc2") = Reverted
    /\ GetSigner("acc2", VotingKey) = Reverted

(***************************************************************************)
(* C30.  setWalletAddress, setMetadataURL and setName revert, changing     *)
(* nothing, when the caller has not created an account, whereas a          *)
(* setAccount that succeeds for a caller without an account creates the    *)
(* account and sets its name, data encryption key and wallet address in    *)
(* the same call.                                                          *)
(***************************************************************************)
AccountSetters == {"setWalletAddress", "setMetadataURL", "setName"}

C30_SettersNeedAnAccountAndSetAccountCreatesIt ==
    [][\A a \in ProfileCallers :
          acCalls' # acCalls /\ acCall'.sender = a /\ ~IsAccount(a)
          => /\ acCall'.fn \in AccountSetters
                => /\ acCall'.outcome = Reverted
                   /\ UNCHANGED <<acAccounts, acProfile>>
             /\ acCall'.fn = "setAccount" /\ acCall'.outcome = "ok"
                => /\ IsAccount(a)'
                   /\ acProfile'[a].name = AccountName
                   /\ acProfile'[a].dataEncryptionKey = DataEncryptionKey
                   /\ acProfile'[a].walletAddress = acCall'.address]_vars

\* the first call was setAccount from acc0 with the wallet address acc1 and
\* the signature of acc1, and acc0 is an account with the data of the call
C30_Witness ==
    /\ acCalls = 1
    /\ acCall = Called("setAccount", "acc0", "acc1", "",
                       GetParsedSignatureOfAddress("acc0", "acc1"), TRUE)
    /\ IsAccount("acc0")
    /\ acProfile["acc0"] = [name |-> AccountName,
                            dataEncryptionKey |-> DataEncryptionKey,
                            walletAddress |-> "acc1", metadataURL |-> ""]

(***************************************************************************)
(* C31.  isAccount(a) is false for an address a that called neither        *)
(* createAccount nor setAccount: it is false at the start and turns true   *)
(* only in a successful createAccount or setAccount from a; a              *)
(* createAccount from an address that is no account and no signer          *)
(* succeeds, isAccount(a) is true after it, and the call emits one event,  *)
(* AccountCreated, naming a.                                               *)
(***************************************************************************)
CreatingCalls == {"createAccount", "setAccount"}

C31_AccountExistsExactlyAfterItsCreation ==
    /\ [](acCalls = 0 => \A a \in Holders : ~IsAccount(a))
    /\ [][\A a \in Holders :
            /\ ~IsAccount(a) /\ IsAccount(a)'
               => /\ acCall'.fn \in CreatingCalls
                  /\ acCall'.sender = a
                  /\ acCall'.outcome = "ok"
            /\ acCalls' # acCalls /\ acCall'.fn = "createAccount"
               /\ acCall'.sender = a
               => /\ IsAccount(a)'
                  /\ ~IsAccount(a) /\ ~IsAuthorizedSigner(a)
                     => /\ acCall'.outcome = "ok"
                        /\ acLogs' = <<[event |-> "AccountCreated",
                                        account |-> a, arg |-> ""]>>]_vars

\* the first call was createAccount from acc0, which is an account now,
\* while acc1 is none
C31_Witness ==
    /\ acCalls = 1
    /\ acCall = Called("createAccount", "acc0", "", "", NoSignature, TRUE)
    /\ IsAccount("acc0")
    /\ ~IsAccount("acc1")
    /\ Len(acLogs) = 1
    /\ acLogs[1].event = "AccountCreated"
    /\ acLogs[1].account = "acc0"

(***************************************************************************)
(* C34.  waitForSelectingIssuers does not busy-spin: a read of the block   *)
(* number that does not end the call is followed by one sleep of           *)
(* pollDurationSeconds * 1000 ms, and the next read starts only when that  *)
(* sleep is over; the unselected request and the wait-block count are      *)
(* each read once, before the first read of the block number, so the       *)
(* required block is the same for the whole wait.                          *)
(***************************************************************************)
InLoop == wPc \in {"getBlockNumber", "sleep"}

C34_OneSleepBetweenReadsAndRequiredBlockFixed ==
    [][/\ wPc # "getBlockNumber" /\ wPc' = "getBlockNumber"
          => \/ wPc = "selectIssuersWaitBlocks" /\ blockNumber = Unread
             \/ wPc = "sleep" /\ sleepLeft = 0 /\ blockNumber # Unread
       /\ wPc = "getBlockNumber" /\ wPc' # "getBlockNumber"
          => \/ wPc' \in {"returned", "threw"}
             \/ /\ wPc' = "sleep"
                /\ sleepLeft' = pollDurationSeconds * MsPerSecond
       /\ wPc = "sleep"
          => /\ wPc' # "sleep" => sleepLeft = 0
             /\ sleepLeft' # sleepLeft
                => sleepLeft' < sleepLeft /\ (now' > now \/ now = MaxNow)
       /\ unselectedRequest' # unselectedRequest
          => wPc = "getUnselectedRequest" /\ unselectedRequest = Unread
       /\ waitBlocks' # waitBlocks
          => wPc = "selectIssuersWaitBlocks" /\ waitBlocks = Unread
       /\ InLoop
          => /\ unselectedRequest # Unread /\ waitBlocks # Unread
             /\ Required' = Required]_vars

\* the second read of the block number is under way, a sleep of one
\* second after the first
C34_Witness ==
    /\ wPc = "getBlockNumber"
    /\ blockNumber # Unread
    /\ slept
    /\ pollDurationSeconds = 1
    /\ sleepLeft = 0
    /\ Elapsed(now) >= MsPerSecond

(***************************************************************************)
(* C36.  Whenever waitForSelectingIssuers returns successfully, the last   *)
(* block number it read is at least unselectedRequest.blockNumber +        *)
(* selectIssuersWaitBlocks and the unselected request read at the start    *)
(* has a block number above 0; the call returns only when a read of the    *)
(* block number completes with such a number, never at a test of the       *)
(* elapsed time.                                                           *)
(***************************************************************************)
C36_SuccessfulReturnFollowsAReadOfTheRequiredBlock ==
    /\ [](wPc = "returned" =>
            /\ unselectedRequest > 0
            /\ waitBlocks # Unread
            /\ blockNumber # Unread
            /\ blockNumber >= unselectedRequest + waitBlocks
            /\ blockNumber <= chainHeight
            /\ wError = NoError)
    /\ [][wPc # "returned" /\ wPc' = "returned"
          => /\ wPc = "getBlockNumber"
             /\ blockNumber' = chainHeight
             /\ chainHeight >= unselectedRequest + waitBlocks]_vars

\* the call returned after the deadline had passed: a poll begun before
\* the deadline read the required block after it
C36_Witness ==
    /\ wPc = "returned"
    /\ unselectedRequest > 0
    /\ slept
    /\ blockNumber = unselectedRequest + waitBlocks
    /\ Elapsed(now) >= Deadline

(***************************************************************************)
(* C37.  For a pending request whose required block was reached when       *)
(* waitForSelectingIssuers was called, the call returns successfully       *)
(* whatever timeoutSeconds is and however long the two reads at the start  *)
(* take (no chain read failing): a Timeout is thrown only after the block  *)
(* number was read at least once.                                          *)
(***************************************************************************)
\* the chain held a pending request of the identifier and had reached its
\* required block when the call started
ReachedAtCall ==
    /\ wPc # "idle"
    /\ chainUnselected[wIdentifier] > 0
    /\ reachedAt = startTime

C37_ReachedRequestReturnsWhateverTheTimeout ==
    /\ (ReachedAtCall /\ WaitOver /\ wError # ErrChainRead) => wPc = "returned"
    /\ (wPc = "threw" /\ wError = ErrTimeout) => firstBlock # Unread

(***************************************************************************)
(* C38.  In every result of getAttestationServiceStatus, okStatus is true  *)
(* exactly when the state is Valid, WrongAccount, UnreachableHealthz or    *)
(* Unhealthy; a result in any other state, UnreachableAttestationService   *)
(* included, has okStatus false and version, ageOfLatestBlock and          *)
(* smsProviders at their initial values.                                   *)
(***************************************************************************)
AnsweredStates == {"Valid", "WrongAccount", "UnreachableHealthz", "Unhealthy"}

C38_OkStatusExactlyInAnsweredStates ==
    ssPc = "returned" =>
        /\ ssRet.okStatus <=> ssRet.state \in AnsweredStates
        /\ ssRet.state \notin AnsweredStates =>
             /\ ~ssRet.okStatus
             /\ ssRet.version = "null"
             /\ ssRet.ageOfLatestBlock = NullAge
             /\ ssRet.smsProviders = <<>>

(***************************************************************************)
(* C32, as claimed.  For the same issuer and the same answers of the chain *)
(* and the service, the per-issuer probe classifies the issuer as valid    *)
(* exactly when getAttestationServiceStatus yields the state Valid.        *)
(***************************************************************************)
Probed == cmpPc = "probed"

C32_ProbeValidExactlyWhenStateValid ==
    Probed => (cmpResult.isValid <=> ssRet.state = "Valid")

(***************************************************************************)
(* C32, amended.  The probe and getAttestationServiceStatus are separate   *)
(* code and classify differently: the probe reads the status field of the  *)
(* body and nothing of the signer, the scheme of the metadata URL, the     *)
(* reported account, the healthz endpoint or the age of the node's block.  *)
(* On the same answers, when the state is Valid the probe is valid exactly *)
(* when the body's status field is 'ok', and when the probe is valid the   *)
(* state is NoAttestationSigner, InvalidAttestationServiceURL, Valid,      *)
(* WrongAccount, UnreachableHealthz or Unhealthy.                          *)
(***************************************************************************)
StatesOfAValidProbe ==
    {"NoAttestationSigner", "InvalidAttestationServiceURL", "Valid",
     "WrongAccount", "UnreachableHealthz", "Unhealthy"}

C32_ProbeAndStatusAgreeOnlyOnMetadataAndStatusRequest ==
    Probed =>
        /\ ssRet.state = "Valid" =>
             (cmpResult.isValid <=> cmpAnswer.status = "ok")
        /\ cmpResult.isValid => ssRet.state \in StatesOfAValidProbe

\* the service reports another account: the state is WrongAccount and the
\* probe is valid
C32_Witness ==
    /\ Probed
    /\ ssRet.state = "WrongAccount"
    /\ ~ssRet.rightAccount
    /\ cmpAnswer.status = "ok"
    /\ cmpResult.isValid

(***************************************************************************)
(* C33.  The probe of getActionableAttestations yields an entry for an     *)
(* issuer if and only if the metadata was fetched, it holds a claim of the *)
(* attestation service URL, the GET of the status endpoint answered 2xx    *)
(* and the body's status field is 'ok'; the entry carries the block number *)
(* and the issuer of the attestation, the URL of the claim, the name of    *)
(* the name claim, or undefined without one, and the version of the body.  *)
(* An issuer without an entry is listed by getNonCompliantIssuers.         *)
(***************************************************************************)
Actionable == ReturnValue("getActionableAttestations", <<cmpResult>>)
NonCompliant == ReturnValue("getNonCompliantIssuers", <<cmpResult>>)

C33_ActionableExactlyWhenServiceAnswersOk ==
    Probed =>
        /\ Len(Actionable) = 1 <=>
             /\ cmpAnswer.metadata = "ok"
             /\ cmpAnswer.urlClaim
             /\ cmpAnswer.fetch = "ok" /\ cmpAnswer.ok
             /\ cmpAnswer.json = "ok" /\ cmpAnswer.status = "ok"
        /\ Len(Actionable) = 1 =>
             /\ Actionable[1] =
                   [blockNumber |-> EntryOfValidator.blockNumber,
                    issuer |-> ssValidator,
                    attestationServiceURL |-> cmpAnswer.url,
                    name |-> IF cmpAnswer.nameClaim THEN cmpAnswer.name
                             ELSE "undefined",
                    version |-> cmpAnswer.version]
             /\ NonCompliant = <<>>
        /\ Len(Actionable) # 1 =>
             Actionable = <<>> /\ NonCompliant = <<ssValidator>>

\* an entry for an issuer whose metadata has no name claim and whose
\* service declares no version
C33_Witness ==
    /\ Probed
    /\ Len(Actionable) = 1
    /\ ~cmpAnswer.nameClaim
    /\ Actionable[1].name = "undefined"
    /\ Actionable[1].version = "undefined"
    /\ Actionable[1].attestationServiceURL = ServiceURL

(***************************************************************************)
(* C35.  setFeeCurrency(GoldToken) returns with defaultFeeCurrency         *)
(* undefined and every gas price as it was; for another token it returns   *)
(* with defaultFeeCurrency the address the registry answered and the gas   *)
(* price of that address updated to the suggested price, the others as     *)
(* they were; no step of the call but its return writes                   *)
(* defaultFeeCurrency, so that the call leaves it as it is while it is     *)
(* awaiting and when it rejects, which it does with the error of the       *)
(* registry lookup or of the gas-price update.                             *)
(***************************************************************************)
FeeAwaiting ==
    fcPc \in {"addressFor", "getGasPriceMinimum", "minimum",
              "setGasPriceForCurrency"}

SetFeeCurrencyCalled == fcMethod = "setFeeCurrency"

\* what the call found and what it leaves in the gas prices
FeePricesDecided ==
    /\ SetFeeCurrencyCalled /\ fcPc = "returned" /\ fcToken = GoldToken =>
         currencyGasPrice = fcBefore.prices
    /\ SetFeeCurrencyCalled /\ fcPc = "returned" /\ fcToken # GoldToken =>
         /\ fcAddress \in TokenAddresses
         /\ currencyGasPrice[fcAddress] =
                ToFixed(fcRaw * gasPriceSuggestionMultiplier)
         /\ \A a \in TokenAddresses \ {fcAddress} :
                currencyGasPrice[a] = fcBefore.prices[a]
    /\ SetFeeCurrencyCalled /\ fcPc = "thrown" =>
         fcError \in {ErrRegistry, ErrWrapper, ErrCall, ErrSetGasPrice}

\* a step of the call: its position or its locals change (the setter of
\* defaultFeeCurrency changes neither)
FeeCallStep ==
    <<fcPc, fcMethod, fcToken, fcAddress, fcRaw, fcError, fcBefore>>' #
        <<fcPc, fcMethod, fcToken, fcAddress, fcRaw, fcError, fcBefore>>

\* the step with which a call of setFeeCurrency returns writes
\* defaultFeeCurrency, no other step of a call does
FeeCurrencyWrittenOnReturn ==
    FeeCallStep =>
        IF fcMethod' = "setFeeCurrency" /\ fcPc' = "returned"
        THEN defaultFeeCurrency' = (IF fcToken' = GoldToken THEN "undefined"
                                    ELSE fcAddress')
        ELSE UNCHANGED defaultFeeCurrency

C35_FeeCurrencySetOnlyAfterGasPriceUpdate ==
    []FeePricesDecided /\ [][FeeCurrencyWrittenOnReturn]_vars

\* a second call for another token returned: the fee currency moved from
\* one registry address to the other and both gas prices are set
C35_Witness ==
    /\ SetFeeCurrencyCalled
    /\ fcPc = "returned"
    /\ fcToken # GoldToken
    /\ fcBefore.currency \in TokenAddresses \ {fcAddress}
    /\ defaultFeeCurrency = fcAddress
    /\ currencyGasPrice[fcAddress] = "5"
    /\ currencyGasPrice[fcBefore.currency] # "undefined"

(***************************************************************************)
(* C39.  For every epoch size of at least 1 and every epoch e of at least  *)
(* 1, the first block of e is not after its last block, the block after    *)
(* the last block of e is the first block of e + 1, and every block from   *)
(* the first to the last block of e has epoch number e; for epoch 0 the    *)
(* first and the last block are 0 and block 0 has epoch number 0.  A call  *)
(* that returns returns the number of these functions for the epoch size   *)
(* of the chain; a call whose read of the epoch size rejects rejects and   *)
(* returns no number.                                                      *)
(***************************************************************************)
ReturnedNumber ==
    CASE epMethod = "getFirstBlockNumberForEpoch" ->
             GetFirstBlockNumberForEpoch(chainEpochSize, epArg)
      [] epMethod = "getLastBlockNumberForEpoch" ->
             GetLastBlockNumberForEpoch(chainEpochSize, epArg)
      [] OTHER -> GetEpochNumberOfBlock(chainEpochSize, epArg)

C39_EpochArithmeticIsSelfConsistent ==
    /\ chainEpochSize >= 1
    /\ \A e \in 1..MaxEpoch :
         LET first == GetFirstBlockNumberForEpoch(chainEpochSize, e)
             last == GetLastBlockNumberForEpoch(chainEpochSize, e)
         IN  /\ first <= last
             /\ last + 1 = GetFirstBlockNumberForEpoch(chainEpochSize, e + 1)
             /\ \A b \in first..last :
                    GetEpochNumberOfBlock(chainEpochSize, b) = e
    /\ GetFirstBlockNumberForEpoch(chainEpochSize, 0) = 0
    /\ GetLastBlockNumberForEpoch(chainEpochSize, 0) = 0
    /\ GetEpochNumberOfBlock(chainEpochSize, 0) = 0
    /\ epPc = "returned" => epResult = ReturnedNumber
    /\ epPc # "returned" => epResult = 0
    /\ epPc = "returned" /\ epMethod = "getEpochNumberOfBlock"
       /\ epArg >= 1 =>
         /\ epResult >= 1
         /\ GetFirstBlockNumberForEpoch(chainEpochSize, epResult) <= epArg
         /\ epArg <= GetLastBlockNumberForEpoch(chainEpochSize, epResult)

\* getEpochNumberOfBlock returned the epoch of a block strictly between
\* the first and the last block of an epoch after the first
C39_Witness ==
    /\ epPc = "returned"
    /\ epMethod = "getEpochNumberOfBlock"
    /\ epArg % chainEpochSize # 0
    /\ epResult >= 2
    /\ GetFirstBlockNumberForEpoch(chainEpochSize, epResult) < epArg
    /\ epArg < GetLastBlockNumberForEpoch(chainEpochSize, epResult)

(***************************************************************************)
(* C40, as claimed.  Once every wrapper of the list was fetched,           *)
(* getNetworkConfig does not reject unless a configuration request fails,  *)
(* every index used for the configuration requests lies inside the list    *)
(* of wrappers, and a request is started for every field of the result.    *)
(***************************************************************************)
AllWrappersFetched == cfgResolved = DOMAIN Wrappers

C40_NetworkConfigCompletesWithEveryIndexInsideTheList ==
    AllWrappersFetched =>
        /\ cfgPc # "thrown"
        /\ \A k \in DOMAIN ConfigIndexes : ConfigIndexes[k] < Len(Wrappers)
        /\ Len(cfgStarted) >= Len(ResultFields)

====
